---- MODULE Spec2Model ----
(***************************************************************************)
(* A model of the validation engine of rkyv: the ArchiveContext contract   *)
(* (check_subtree_ptr / push_subtree_range / pop_subtree_range), the       *)
(* helpers of ArchiveContextExt, Verify for ArchivedBox and the access     *)
(* entry points of validation/util.rs.                                     *)
(*                                                                         *)
(* Addresses are machine words of AddrBits bits.  An archive is a buffer   *)
(* of `len` cells placed at address `base`; a cell read as a RelPtr is a   *)
(* signed offset from the cell's own address, a cell read as a leaf value  *)
(* is valid when it holds 0 or 1.  The archive is untrusted input: a cell  *)
(* takes its value when it is first read and never changes afterwards.     *)
(***************************************************************************)
EXTENDS Integers, Sequences, FiniteSets, TLC

\* ------------------------------------------------------------- bounds
AddrBits == 5
MaxLen == 5
MaxBack == 3
MaxFwd == 1
MaxDepth == 3

USIZE == 2 ^ AddrBits
ISIZE_MAX == 2 ^ (AddrBits - 1) - 1

Bases == {1, USIZE - MaxLen - 1}
CellVals == (0 - MaxBack) .. MaxFwd
Unread == MaxFwd + 1
PosSet == (0 .. (MaxLen + 1)) \cup {ISIZE_MAX + 1}
NoAddr == 0 - 1

\* ------------------------------------------------ archived types (T)
\* The pointee types the generic code is instantiated with:
\*   Pair  = struct { a: ArchivedBox<Leaf>, b: ArchivedBox<Leaf> }
\*   Outer = struct { inner: ArchivedBox<Inner> }
\*   Inner = struct { leaf: ArchivedBox<Leaf> }
\*   Leaf  = a one-cell value with invalid bit patterns (like bool)
RootTypes == {"Pair", "Outer"}

size_of(ty) == IF ty = "Pair" THEN 2 ELSE 1

\* The ArchivedBox fields of a type: <<offset in the struct, pointee type>>.
fields(ty) ==
    CASE ty = "Pair" -> << <<0, "Leaf">>, <<1, "Leaf">> >>
      [] ty = "Outer" -> << <<0, "Inner">> >>
      [] ty = "Inner" -> << <<0, "Leaf">> >>
      [] OTHER -> << >>

\* The metadata () of a pointer to a sized type.
Unit == 0

\* T::layout_raw(metadata): the layout of a sized type is its size; the
\* layout of the slice type "Slice" = [Leaf] is Layout::array::<Leaf>(len),
\* which overflows when the claimed length takes it above isize::MAX.
layout_raw(ty, metadata) ==
    IF ty = "Slice"
    THEN IF metadata * size_of("Leaf") > ISIZE_MAX
         THEN [ok |-> FALSE, size |-> 0]
         ELSE [ok |-> TRUE, size |-> metadata * size_of("Leaf")]
    ELSE [ok |-> TRUE, size |-> size_of(ty)]

\* A leaf's own bytes are valid when the cell holds 0 or 1.
leaf_valid(v) == v \in {0, 1}

\* --------------------------------------------------------- results
Ok == [ok |-> TRUE, err |-> "none"]
Err(kind) == [ok |-> FALSE, err |-> kind]

NoRange == [start |-> 0, end |-> 0]

\* base.wrapping_offset(offset): pointer arithmetic wraps at the word size.
wrapping_offset(b, offset) == (b + offset) % USIZE

\* ----------------------------------------- ArchiveContext (validator)
\* The validator: the subtree range [start, end) and the ranges returned by
\* pushes that have not been popped yet, innermost last.

\* A validator over the cells [s, e).
new_validator(s, e) == [start |-> s, end |-> e, stack |-> << >>]

\* check_subtree_ptr with the lower bound of the range left unchecked.
check_subtree_ptr_NoLower(c, ptr, size) ==
    IF ptr + size <= c.end THEN Ok ELSE Err("PointerOutOfBounds")

\* check_subtree_ptr: the data is located completely within the subtree range.
check_subtree_ptr(c, ptr, size) ==
    IF c.start <= ptr /\ ptr + size <= c.end
    THEN Ok
    ELSE Err("PointerOutOfBounds")

\* push_subtree_range returning the remainder from `root` instead of `end`.
push_subtree_range_FromRoot(c, root, end) ==
    LET range == [start |-> root, end |-> c.end]
    IN  [ctx |-> [c EXCEPT !.end = root, !.stack = Append(@, range)],
         range |-> range]

\* push_subtree_range that leaves the subtree range as it was.
push_subtree_range_KeepRange(c, root, end) ==
    LET range == [start |-> end, end |-> c.end]
    IN  [ctx |-> [c EXCEPT !.stack = Append(@, range)], range |-> range]

\* push_subtree_range: afterwards the subtree range starts at the original
\* start and ends at root; popping the returned range leaves the range
\* starting at `end` and ending at the original end.
push_subtree_range(c, root, end) ==
    LET range == [start |-> end, end |-> c.end]
    IN  [ctx |-> [c EXCEPT !.end = root, !.stack = Append(@, range)],
         range |-> range]

\* pop_subtree_range without the check of the order.
pop_subtree_range_Unordered(c, range) ==
    [ok |-> TRUE, err |-> "none",
     ctx |-> [start |-> range.start, end |-> range.end,
              stack |-> IF c.stack = << >> THEN c.stack
                        ELSE SubSeq(c.stack, 1, Len(c.stack) - 1)]]

\* pop_subtree_range that checks the order but does not restore the range.
pop_subtree_range_NoRestore(c, range) ==
    IF c.stack # << >> /\ c.stack[Len(c.stack)] = range
    THEN [ok |-> TRUE, err |-> "none",
          ctx |-> [c EXCEPT !.stack = SubSeq(c.stack, 1, Len(c.stack) - 1)]]
    ELSE [ok |-> FALSE, err |-> "OutOfOrderPop", ctx |-> c]

\* pop_subtree_range that gives back the range from its old start, the
\* cells of the popped pointee included.
pop_subtree_range_FromStart(c, range) ==
    IF c.stack # << >> /\ c.stack[Len(c.stack)] = range
    THEN [ok |-> TRUE, err |-> "none",
          ctx |-> [start |-> c.start, end |-> range.end,
                   stack |-> SubSeq(c.stack, 1, Len(c.stack) - 1)]]
    ELSE [ok |-> FALSE, err |-> "OutOfOrderPop", ctx |-> c]

\* pop_subtree_range: restores `range`; an error if the range is not popped
\* in reverse order of the pushes.
pop_subtree_range(c, range) ==
    IF c.stack # << >> /\ c.stack[Len(c.stack)] = range
    THEN [ok |-> TRUE, err |-> "none",
          ctx |-> [start |-> range.start, end |-> range.end,
                   stack |-> SubSeq(c.stack, 1, Len(c.stack) - 1)]]
    ELSE [ok |-> FALSE, err |-> "OutOfOrderPop", ctx |-> c]

\* ------------------------------------------------- ArchiveContextExt
\* bounds_check_subtree_base_offset with the `?` after check_subtree_ptr lost:
\* the pointer is returned whatever the check answered.
bounds_check_IgnoreResult(c, ty, b, offset, metadata) ==
    LET ptr == wrapping_offset(b, offset)
        r == check_subtree_ptr(c, ptr, layout_raw(ty, metadata).size)
    IN  [ok |-> TRUE, err |-> "none", ptr |-> ptr, called |-> TRUE, inner |-> r]

\* bounds_check_subtree_base_offset taking the offset for the address.
bounds_check_Absolute(c, ty, b, offset, metadata) ==
    LET ptr == wrapping_offset(0, offset)
        r == check_subtree_ptr(c, ptr, layout_raw(ty, metadata).size)
    IN  [ok |-> r.ok, err |-> r.err, ptr |-> IF r.ok THEN ptr ELSE NoAddr,
         called |-> TRUE, inner |-> r]

\* bounds_check_subtree_base_offset with the `?` after layout_raw lost: a
\* layout that overflowed is taken for an empty one.
bounds_check_LayoutUnchecked(c, ty, b, offset, metadata) ==
    LET ptr == wrapping_offset(b, offset)
        r == check_subtree_ptr(c, ptr, layout_raw(ty, metadata).size)
    IN  [ok |-> r.ok, err |-> r.err, ptr |-> IF r.ok THEN ptr ELSE NoAddr,
         called |-> TRUE, inner |-> r]

\* The outcome carries `inner`, what check_subtree_ptr itself answered, and
\* `called`, whether it was called at all.
bounds_check_subtree_base_offset(c, ty, b, offset, metadata) ==
    LET ptr == wrapping_offset(b, offset)
        layout == layout_raw(ty, metadata)
    IN  IF ~layout.ok
        THEN [ok |-> FALSE, err |-> "LayoutOverflow", ptr |-> NoAddr,
              called |-> FALSE, inner |-> Ok]
        ELSE LET r == check_subtree_ptr(c, ptr, layout.size)
             IN  [ok |-> r.ok, err |-> r.err, ptr |-> IF r.ok THEN ptr ELSE NoAddr,
                  called |-> TRUE, inner |-> r]

\* push_prefix_subtree that takes the end of the pointee one cell too far.
push_prefix_subtree_OffByOne(c, ty, root, metadata) ==
    LET r == push_subtree_range(c, root, root + layout_raw(ty, metadata).size + 1)
    IN  [ok |-> TRUE, err |-> "none", ctx |-> r.ctx, range |-> r.range]

\* push_prefix_subtree with the `?` after layout_raw lost: without a layout
\* the range of an empty pointee is pushed.
push_prefix_subtree_PushAnyway(c, ty, root, metadata) ==
    LET r == push_subtree_range(c, root, root + layout_raw(ty, metadata).size)
    IN  [ok |-> layout_raw(ty, metadata).ok,
         err |-> IF layout_raw(ty, metadata).ok THEN "none" ELSE "LayoutOverflow",
         ctx |-> r.ctx, range |-> r.range]

\* push_prefix_subtree(root): `root` is a pointer to T, given here as its
\* address and its metadata (ptr_meta::metadata(root)).
push_prefix_subtree(c, ty, root, metadata) ==
    LET layout == layout_raw(ty, metadata)
    IN  IF ~layout.ok
        THEN [ok |-> FALSE, err |-> "LayoutOverflow", ctx |-> c, range |-> NoRange]
        ELSE LET r == push_subtree_range(c, root, root + layout.size)
             IN  [ok |-> TRUE, err |-> "none", ctx |-> r.ctx, range |-> r.range]


\* -------------------------------------------------------------- state
VARIABLES
    len,        \* bytes.len()
    base,       \* bytes.as_ptr()
    bytes,      \* the cells of the archive (Unread until first read)
    rootTy,     \* the type parameter T of the entry point
    pos,        \* the root position handed to check_pos_with_context
    mutable,    \* whether a _mut entry point was called
    validator,  \* the ArchiveContext
    frames,     \* the nested check_pos_with_context / verify calls
    pc,         \* the step the innermost call is at
    result,     \* what check_pos_with_context returned
    ref,        \* what the access entry point returned
    accepted,   \* history: the <<ptr, size>> ranges check_subtree_ptr accepted
    checked,    \* history: the <<ptr, type>> pointees handed to check_bytes
    reads,      \* history: the addresses whose cells were read
    last,       \* history: the last call made on the context
    counts,     \* history: pushes, successful pops and failed checks
    completed,  \* history: the steps of the verify call that returned last
    held,       \* the pushes the caller of the raw context API has not popped
    shared,     \* the SharedContext: its registry and the calls made on it
    ser,        \* the serializer: a Composite, its parts alone, and the calls
    enc,        \* the value being serialized: its pointer fields and resolvers
    rel,        \* one relative pointer: where it is emplaced and what it holds
    reloc,      \* the same steps on the same bytes at the other base address
    entry,      \* the entry point that was called, and what it handed back
    other,      \* the pass over the same buffer that is not stepping now
    ext,        \* the last call of an ArchiveContextExt method made directly
    args        \* the archive_dyn arguments being parsed

vars == <<len, base, bytes, rootTy, pos, mutable, validator, frames, pc,
          result, ref, accepted, checked, reads, last, counts, completed, held,
          shared, ser, enc, rel, reloc, entry, other, ext, args>>

NoRef == [some |-> FALSE, pos |-> 0, mutable |-> FALSE]
NoResult == [state |-> "none", err |-> "none"]
NoCall == [op |-> "none", a |-> 0, b |-> 0, pre |-> new_validator(0, 0),
           ok |-> TRUE, err |-> "none", ret |-> NoRange, held |-> << >>, i |-> 0]

\* The record of a call on the context: its name, its two arguments, the
\* context before it, its outcome and the range it returned.
Call(op, a, b, pre, ok, err, ret) ==
    [op |-> op, a |-> a, b |-> b, pre |-> pre, ok |-> ok, err |-> err,
     ret |-> ret, held |-> << >>, i |-> 0]

\* ---------------------------------------------------- reading the archive
InBuf(a) == base <= a /\ a < base + len

\* The values a read of the cell at address a can give: the cell's value, any
\* value for a cell not read before, and anything at all outside the buffer.
ReadVals(a) ==
    IF InBuf(a)
    THEN IF bytes[a - base + 1] = Unread THEN CellVals ELSE {bytes[a - base + 1]}
    ELSE CellVals

AfterRead(a, v) == IF InBuf(a) THEN [bytes EXCEPT ![a - base + 1] = v] ELSE bytes

\* ----------------------------------------------------- control flow
\* The steps with the pop left out: Ok(()) right after check_bytes.
next_step_NoPop(step) ==
    CASE step = "bounds" -> "push"
      [] step = "push" -> "check_bytes"
      [] OTHER -> "ret"

\* The order of the steps of check_pos_with_context and of Verify::verify:
\* bounds check, push, check_bytes, pop, return Ok(()).
next_step(step) ==
    CASE step = "bounds" -> "push"
      [] step = "push" -> "check_bytes"
      [] step = "check_bytes" -> "pop"
      [] step = "pop" -> "ret"
      [] OTHER -> "ret"

\* An error that is dropped instead of returned.
try_NoAbort(r, step) == next_step(step)

\* An error of check_bytes that is followed by the pop of the pushed range.
try_PopFirst(r, step) ==
    IF r.ok THEN next_step(step)
    ELSE IF step = "check_bytes" THEN "pop" ELSE "exit"

\* The `?` operator: an error returns from the whole pass at once.
try(r, step) == IF r.ok THEN next_step(step) ELSE "exit"

Frame(kind, ty, at) ==
    [kind |-> kind, ty |-> ty, at |-> at, ptr |-> NoAddr, range |-> NoRange,
     field |-> 0, steps |-> << >>]

Top == frames[Len(frames)]
SetTop(f) == [frames EXCEPT ![Len(frames)] = f]

\* The subtraction that wraps below zero.
saturating_sub_Wrapping(a, b) == (a - b) % USIZE

\* The subtraction the other way round.
saturating_sub_Swapped(a, b) == IF b >= a THEN b - a ELSE 0

saturating_sub(a, b) == IF a >= b THEN a - b ELSE 0

\* A SharedContext as it is constructed: nothing registered, no call made.
new_shared == [reg |-> {}, log |-> << >>, failed |-> FALSE]

\* No serializer has been built.
NoSer == [kind |-> "none"]

\* No value is being serialized.
NoEnc == [pc |-> "none"]

\* No relative pointer has been emplaced.
NoRel == [pc |-> "none"]

\* Nothing was checked at the other base address yet.
NoReloc == [same |-> TRUE, checks |-> {}]

\* No entry point was called.
NoEntry == [name |-> "none", out |-> "none", err |-> "none", started |-> FALSE, at |-> 0]

\* The entry point that was called; it has handed nothing back yet.
Called(name) == [NoEntry EXCEPT !.name = name]

\* No ArchiveContextExt method was called directly.
NoExt == [op |-> "none"]

\* No argument list is being parsed.
NoArgs == [pc |-> "none"]

\* There is no second pass over the buffer.
NoPass == [pc |-> "none", overlap |-> FALSE]

Init ==
    /\ len \in 0 .. MaxLen
    /\ base \in Bases
    /\ bytes = [i \in 1 .. len |-> Unread]
    /\ rootTy = "Pair"
    /\ pos = 0
    /\ mutable = FALSE
    /\ validator = new_validator(base, base + len)
    /\ frames = << >>
    /\ pc = "idle"
    /\ result = NoResult
    /\ ref = NoRef
    /\ accepted = {}
    /\ checked = {}
    /\ reads = {}
    /\ last = NoCall
    /\ counts = [push |-> 0, pop |-> 0, fail |-> 0]
    /\ completed = << >>
    /\ held = << >>
    /\ shared = new_shared
    /\ ser = NoSer
    /\ enc = NoEnc
    /\ rel = NoRel
    /\ reloc = NoReloc
    /\ entry = NoEntry
    /\ other = NoPass
    /\ ext = NoExt
    /\ args = NoArgs

\* ------------------------------------------------- the entry points
\* The contexts a caller of the _with_context entry points supplies: a
\* validator of the whole buffer, or of the buffer without its last cell.
Contexts == {new_validator(base, base + len - cut) : cut \in {c \in {0, 1} : c <= len}}

Start(T, p, c, m) ==
    /\ pc = "idle"
    /\ rootTy' = T
    /\ pos' = p
    /\ validator' = c
    /\ mutable' = m
    /\ pc' = "check_pos"
    /\ UNCHANGED <<len, base, bytes, frames, result, ref, accepted, checked,
                   reads, last, counts, completed, held>>
    /\ UNCHANGED <<shared, ser, enc, rel>>
    /\ UNCHANGED <<other, ext, args>>
    /\ UNCHANGED reloc

access_pos_with_context ==
    /\ \E T \in RootTypes, p \in PosSet, c \in Contexts : Start(T, p, c, FALSE)
    /\ entry' = Called("access_pos_with_context")

access_with_context ==
    /\ \E T \in RootTypes, c \in Contexts :
        Start(T, saturating_sub(len, size_of(T)), c, FALSE)
    /\ entry' = Called("access_with_context")

access_pos ==
    /\ \E T \in RootTypes, p \in PosSet :
        Start(T, p, new_validator(base, base + len), FALSE)
    /\ entry' = Called("access_pos")

access ==
    /\ \E T \in RootTypes :
        Start(T, saturating_sub(len, size_of(T)), new_validator(base, base + len), FALSE)
    /\ entry' = Called("access")

access_pos_with_context_mut ==
    /\ \E T \in RootTypes, p \in PosSet, c \in Contexts : Start(T, p, c, TRUE)
    /\ entry' = Called("access_pos_with_context_mut")

access_with_context_mut ==
    /\ \E T \in RootTypes, c \in Contexts :
        Start(T, saturating_sub(len, size_of(T)), c, TRUE)
    /\ entry' = Called("access_with_context_mut")

access_pos_mut ==
    /\ \E T \in RootTypes, p \in PosSet :
        Start(T, p, new_validator(base, base + len), TRUE)
    /\ entry' = Called("access_pos_mut")

access_mut ==
    /\ \E T \in RootTypes :
        Start(T, saturating_sub(len, size_of(T)), new_validator(base, base + len), TRUE)
    /\ entry' = Called("access_mut")

\* from_bytes: `access::<T::Archived, E>(bytes)?` comes first.
from_bytes ==
    /\ \E T \in RootTypes :
        Start(T, saturating_sub(len, size_of(T)), new_validator(base, base + len), FALSE)
    /\ entry' = Called("from_bytes")

\* ------------------------------------------------------- relocation
\* The base addresses the buffer can lie at.
Relocations == 1 .. (USIZE - MaxLen - 1)

ShiftRange(r, d) == [start |-> r.start + d, end |-> r.end + d]

\* The context of the pass over the same buffer lying d bytes further on.
Shift(c, d) ==
    [start |-> c.start + d, end |-> c.end + d,
     stack |-> [i \in 1 .. Len(c.stack) |-> ShiftRange(c.stack[i], d)]]

\* The bounds check of a pointer read from the same bytes answers the same,
\* and accepts the same position of the buffer, wherever the buffer lies.
SameBounds(c, ty, at, off, r) ==
    \A b2 \in Relocations :
        LET d == b2 - base
            r2 == bounds_check_subtree_base_offset(Shift(c, d), ty, at + d, off, Unit)
        IN  /\ r2.ok = r.ok
            /\ r2.err = r.err
            /\ r.ok => r2.ptr - b2 = r.ptr - base

SamePush(c, ty, root, r) ==
    \A b2 \in Relocations :
        LET d == b2 - base
            r2 == push_prefix_subtree(Shift(c, d), ty, root + d, Unit)
        IN  /\ r2.ok = r.ok
            /\ r2.err = r.err
            /\ r2.ctx = Shift(r.ctx, d)
            /\ r.ok => r2.range = ShiftRange(r.range, d)

SamePop(c, range, r) ==
    \A b2 \in Relocations :
        LET d == b2 - base
            r2 == pop_subtree_range(Shift(c, d), ShiftRange(range, d))
        IN  /\ r2.ok = r.ok
            /\ r2.err = r.err
            /\ r2.ctx = Shift(r.ctx, d)

\* The comparison of one more step with the same step at the other addresses.
Compared(step, same) ==
    [same |-> reloc.same /\ same, checks |-> reloc.checks \cup {step}]

\* ------------------------------------------- check_pos_with_context
Failed(kind) == [state |-> "Err", err |-> kind]

\* The conversion that lets every position through.
try_into_Unchecked(p) == Ok

\* pos.try_into(): a usize above isize::MAX is no isize.
try_into(p) == IF p > ISIZE_MAX THEN Err("PosOverflow") ELSE Ok

\* `let offset = pos.try_into().into_error()?`: the position as a signed
\* offset, before anything is asked of the context.
CheckPos ==
    /\ pc = "check_pos"
    /\ IF ~try_into(pos).ok
       THEN /\ result' = Failed(try_into(pos).err)
            /\ pc' = "exit"
            /\ frames' = frames
       ELSE /\ result' = result
            /\ pc' = "bounds"
            /\ frames' = << Frame("root", rootTy, base) >>
    /\ UNCHANGED <<len, base, bytes, rootTy, pos, mutable, validator, ref,
                   accepted, checked, reads, last, counts, completed, held>>
    /\ UNCHANGED <<shared, ser, enc, rel>>
    /\ UNCHANGED <<entry, other, ext, args>>
    /\ UNCHANGED reloc

\* bounds_check_subtree_base_offset for the root, and
\* bounds_check_subtree_rel_ptr (which reads the RelPtr) for a box.
BoundsCheck ==
    /\ pc = "bounds"
    /\ frames # << >>
    /\ LET f == Top
       IN  \E off \in (IF f.kind = "root" THEN {pos} ELSE ReadVals(f.at)) :
            LET r == bounds_check_subtree_base_offset(validator, f.ty, f.at, off, Unit)
            IN  /\ bytes' = IF f.kind = "root" THEN bytes ELSE AfterRead(f.at, off)
                /\ reads' = IF f.kind = "root" THEN reads ELSE reads \cup {f.at}
                /\ frames' = SetTop([f EXCEPT !.ptr = r.ptr,
                                              !.steps = Append(@, "bounds")])
                /\ accepted' = IF r.called /\ r.inner.ok
                               THEN accepted \cup {<<wrapping_offset(f.at, off),
                                                      size_of(f.ty)>>}
                               ELSE accepted
                /\ last' = IF r.called
                           THEN Call("check_subtree_ptr", wrapping_offset(f.at, off),
                                     size_of(f.ty), validator, r.inner.ok,
                                     r.inner.err, NoRange)
                           ELSE last
                /\ counts' = IF r.ok THEN counts ELSE [counts EXCEPT !.fail = @ + 1]
                /\ result' = IF r.ok THEN result ELSE Failed(r.err)
                /\ pc' = try(r, "bounds")
                /\ reloc' = Compared("bounds", SameBounds(validator, f.ty, f.at, off, r))
    /\ UNCHANGED <<len, base, rootTy, pos, mutable, validator, ref, checked,
                   completed, held>>
    /\ UNCHANGED <<shared, ser, enc, rel>>
    /\ UNCHANGED <<entry, other, ext, args>>

\* push_prefix_subtree(ptr)
PushPrefix ==
    /\ pc = "push"
    /\ frames # << >>
    /\ LET f == Top
           r == push_prefix_subtree(validator, f.ty, f.ptr, Unit)
       IN  /\ validator' = r.ctx
           /\ frames' = SetTop([f EXCEPT !.range = r.range,
                                         !.steps = Append(@, "push")])
           /\ last' = IF r.ok
                      THEN Call("push_subtree_range", f.ptr, f.ptr + size_of(f.ty),
                                validator, TRUE, "none", r.range)
                      ELSE last
           /\ counts' = IF r.ok THEN [counts EXCEPT !.push = @ + 1]
                                ELSE [counts EXCEPT !.fail = @ + 1]
           /\ result' = IF r.ok THEN result ELSE Failed(r.err)
           /\ pc' = try(r, "push")
           /\ reloc' = Compared("push", SamePush(validator, f.ty, f.ptr, r))
    /\ UNCHANGED <<len, base, bytes, rootTy, pos, mutable, ref, accepted,
                   checked, reads, completed, held>>
    /\ UNCHANGED <<shared, ser, enc, rel>>
    /\ UNCHANGED <<entry, other, ext, args>>

\* The steps of a frame with check_bytes entered.
Entered(f) ==
    IF f.steps # << >> /\ f.steps[Len(f.steps)] = "check_bytes"
    THEN f.steps
    ELSE Append(f.steps, "check_bytes")

\* T::check_bytes(ptr, context) of a struct: its next ArchivedBox field is
\* checked, which calls Verify::verify on it.
CheckBytesField ==
    /\ pc = "check_bytes"
    /\ frames # << >>
    /\ LET f == Top
           fs == fields(f.ty)
       IN  /\ f.field < Len(fs)
           /\ checked' = checked \cup {<<f.ptr, f.ty>>}
           /\ frames' = Append(SetTop([f EXCEPT !.steps = Entered(f)]),
                               Frame("box", fs[f.field + 1][2],
                                     f.ptr + fs[f.field + 1][1]))
           /\ pc' = "bounds"
    /\ UNCHANGED <<len, base, bytes, rootTy, pos, mutable, validator, result,
                   ref, accepted, reads, last, counts, completed, held>>
    /\ UNCHANGED <<shared, ser, enc, rel>>
    /\ UNCHANGED <<entry, other, ext, args>>
    /\ UNCHANGED reloc

\* T::check_bytes(ptr, context) of a leaf: its cell is read and checked.
CheckBytesLeaf ==
    /\ pc = "check_bytes"
    /\ frames # << >>
    /\ LET f == Top
       IN  /\ f.ty = "Leaf"
           /\ \E v \in ReadVals(f.ptr) :
                LET r == IF leaf_valid(v) THEN Ok ELSE Err("InvalidBytes")
                IN  /\ bytes' = AfterRead(f.ptr, v)
                    /\ reads' = reads \cup {f.ptr}
                    /\ checked' = checked \cup {<<f.ptr, f.ty>>}
                    /\ frames' = SetTop([f EXCEPT !.steps = Entered(f)])
                    /\ counts' = IF r.ok THEN counts
                                         ELSE [counts EXCEPT !.fail = @ + 1]
                    /\ result' = IF r.ok THEN result ELSE Failed(r.err)
                    /\ pc' = try(r, "check_bytes")
    /\ UNCHANGED <<len, base, rootTy, pos, mutable, validator, ref, accepted,
                   last, completed, held>>
    /\ UNCHANGED <<shared, ser, enc, rel>>
    /\ UNCHANGED <<entry, other, ext, args>>
    /\ UNCHANGED reloc

\* T::check_bytes(ptr, context) of a struct returns Ok after its last field.
CheckBytesDone ==
    /\ pc = "check_bytes"
    /\ frames # << >>
    /\ LET f == Top
       IN  /\ f.ty # "Leaf"
           /\ f.field = Len(fields(f.ty))
           /\ checked' = checked \cup {<<f.ptr, f.ty>>}
           /\ frames' = SetTop([f EXCEPT !.steps = Entered(f)])
           /\ pc' = try(Ok, "check_bytes")
    /\ UNCHANGED <<len, base, bytes, rootTy, pos, mutable, validator, result,
                   ref, accepted, reads, last, counts, completed, held>>
    /\ UNCHANGED <<shared, ser, enc, rel>>
    /\ UNCHANGED <<entry, other, ext, args>>
    /\ UNCHANGED reloc

\* pop_subtree_range(range)
PopRange ==
    /\ pc = "pop"
    /\ frames # << >>
    /\ LET f == Top
           r == pop_subtree_range(validator, f.range)
       IN  /\ validator' = r.ctx
           /\ frames' = SetTop([f EXCEPT !.steps = Append(@, "pop")])
           /\ last' = Call("pop_subtree_range", f.range.start, f.range.end,
                           validator, r.ok, r.err, NoRange)
           /\ counts' = IF r.ok THEN [counts EXCEPT !.pop = @ + 1]
                                ELSE [counts EXCEPT !.fail = @ + 1]
           /\ result' = IF r.ok THEN result ELSE Failed(r.err)
           /\ pc' = try(r, "pop")
           /\ reloc' = Compared("pop", SamePop(validator, f.range, r))
    /\ UNCHANGED <<len, base, bytes, rootTy, pos, mutable, ref, accepted,
                   checked, reads, completed, held>>
    /\ UNCHANGED <<shared, ser, enc, rel>>
    /\ UNCHANGED <<entry, other, ext, args>>

\* Ok(()): verify returns to the check_bytes of the enclosing value, and
\* check_pos_with_context returns to the entry point.
Return ==
    /\ pc = "ret"
    /\ frames # << >>
    /\ LET f == Top
           rest == SubSeq(frames, 1, Len(frames) - 1)
       IN  /\ completed' = f.steps
           /\ IF rest = << >>
              THEN /\ frames' = rest
                   /\ result' = [state |-> "Ok", err |-> "none"]
                   /\ pc' = "exit"
              ELSE /\ frames' = [rest EXCEPT ![Len(rest)].field = @ + 1]
                   /\ result' = result
                   /\ pc' = "check_bytes"
    /\ UNCHANGED <<len, base, bytes, rootTy, pos, mutable, validator, ref,
                   accepted, checked, reads, last, counts, held>>
    /\ UNCHANGED <<shared, ser, enc, rel>>
    /\ UNCHANGED <<entry, other, ext, args>>
    /\ UNCHANGED reloc

\* access_pos_with_context without the `?`: the reference whatever the check said.
checked_access_Unchecked(res, p, m) == [some |-> TRUE, pos |-> p, mutable |-> m]

\* access_pos_with_context: `check_pos_with_context(..)?` and then
\* Ok(access_pos_unchecked(bytes, pos)).
checked_access(res, p, m) ==
    IF res.state = "Ok" THEN [some |-> TRUE, pos |-> p, mutable |-> m] ELSE NoRef

AccessReturn ==
    /\ pc = "exit"
    /\ ref' = checked_access(result, pos, mutable)
    /\ pc' = "done"
    /\ UNCHANGED <<len, base, bytes, rootTy, pos, mutable, validator, frames,
                   result, accepted, checked, reads, last, counts, completed, held>>
    /\ UNCHANGED <<shared, ser, enc, rel>>
    /\ UNCHANGED <<entry, other, ext, args>>
    /\ UNCHANGED reloc

\* from_bytes_unchecked: the archive is deserialized whatever access said.
from_bytes_Unchecked(e, r, res, p) ==
    [e EXCEPT !.out = "Ok", !.started = TRUE, !.at = p]

\* from_bytes after access returned: `?` returns its error, and only a
\* reference is handed to deserialize, which builds the value from it.
from_bytes_return(e, r, res, p) ==
    IF r.some
    THEN [e EXCEPT !.out = "Ok", !.started = TRUE, !.at = r.pos]
    ELSE [e EXCEPT !.out = "Err", !.err = res.err]

FromBytesReturn ==
    /\ pc = "done"
    /\ entry.name = "from_bytes"
    /\ entry.out = "none"
    /\ entry' = from_bytes_return(entry, ref, result, pos)
    /\ UNCHANGED <<len, base, bytes, rootTy, pos, mutable, validator, frames, pc,
                   result, ref, accepted, checked, reads, last, counts,
                   completed, held>>
    /\ UNCHANGED <<shared, ser, enc, rel>>
    /\ UNCHANGED <<reloc, other, ext, args>>

Next ==
    \/ access_pos_with_context
    \/ access_with_context
    \/ access_pos
    \/ access
    \/ access_pos_with_context_mut
    \/ access_with_context_mut
    \/ access_pos_mut
    \/ access_mut
    \/ CheckPos
    \/ BoundsCheck
    \/ PushPrefix
    \/ CheckBytesField
    \/ CheckBytesLeaf
    \/ CheckBytesDone
    \/ PopRange
    \/ Return
    \/ AccessReturn
    \/ from_bytes
    \/ FromBytesReturn

Spec == Init /\ [][Next]_vars


\* ------------------------------------------ the context API on its own
\* A caller that drives the three ArchiveContext methods directly, within
\* their safety conditions: the ranges it pushes lie inside the subtree range
\* and the ranges it pops are ranges this validator returned.
InitCtx ==
    /\ Init
    /\ len > 0

CtxIdle == pc = "idle" /\ result.state = "none"

CtxCheck ==
    /\ CtxIdle
    /\ \E ptr \in (base - 1) .. (base + len), size \in 0 .. 2 :
        LET r == check_subtree_ptr(validator, ptr, size)
        IN  /\ last' = Call("check_subtree_ptr", ptr, size, validator, r.ok,
                            r.err, NoRange)
            /\ result' = IF r.ok THEN result ELSE Failed(r.err)
    /\ UNCHANGED <<len, base, bytes, rootTy, pos, mutable, validator, frames,
                   pc, ref, accepted, checked, reads, counts, completed, held>>
    /\ UNCHANGED <<shared, ser, enc, rel>>
    /\ UNCHANGED <<entry, other, ext, args>>
    /\ UNCHANGED reloc

CtxPush ==
    /\ CtxIdle
    /\ Len(held) < MaxDepth
    /\ \E root \in validator.start .. validator.end, end \in validator.start .. validator.end :
        /\ root <= end
        /\ LET r == push_subtree_range(validator, root, end)
           IN  /\ validator' = r.ctx
               /\ held' = Append(held, [range |-> r.range, root |-> root, end |-> end,
                                        orig |-> [start |-> validator.start,
                                                  end |-> validator.end]])
               /\ last' = Call("push_subtree_range", root, end, validator, TRUE,
                               "none", r.range)
    /\ UNCHANGED <<len, base, bytes, rootTy, pos, mutable, frames, pc, result,
                   ref, accepted, checked, reads, counts, completed>>
    /\ UNCHANGED <<shared, ser, enc, rel>>
    /\ UNCHANGED <<entry, other, ext, args>>
    /\ UNCHANGED reloc

CtxPop ==
    /\ CtxIdle
    /\ \E i \in 1 .. Len(held) :
        LET r == pop_subtree_range(validator, held[i].range)
        IN  /\ validator' = r.ctx
            /\ held' = IF r.ok
                       THEN SubSeq(held, 1, i - 1) \o SubSeq(held, i + 1, Len(held))
                       ELSE held
            /\ last' = [Call("pop_subtree_range", held[i].range.start, held[i].range.end,
                             validator, r.ok, r.err, NoRange)
                        EXCEPT !.held = held, !.i = i]
            /\ result' = IF r.ok THEN result ELSE Failed(r.err)
    /\ UNCHANGED <<len, base, bytes, rootTy, pos, mutable, frames, pc, ref,
                   accepted, checked, reads, counts, completed>>
    /\ UNCHANGED <<shared, ser, enc, rel>>
    /\ UNCHANGED <<entry, other, ext, args>>
    /\ UNCHANGED reloc

NextCtx == CtxCheck \/ CtxPush \/ CtxPop

SpecCtx == InitCtx /\ [][NextCtx]_vars


\* =================================================================
\* The claims
\* =================================================================
InRange(c, ptr, size) == c.start <= ptr /\ ptr + size <= c.end
InBuffer(ptr, size) == base <= ptr /\ ptr + size <= base + len

\* C1: a pointer whose resolved range [ptr, ptr+size) is not inside the buffer
\* or not inside the innermost active subtree range is refused by the bounds
\* check with PointerOutOfBounds, which is then the result of the pass; every
\* pointee handed to check_bytes had its range accepted by check_subtree_ptr
\* and lies in the buffer, and no cell outside the buffer is ever read.
C1_BoundsRejection ==
    /\ (last.op = "check_subtree_ptr"
          /\ (~InRange(last.pre, last.a, last.b) \/ ~InBuffer(last.a, last.b)))
       => (~last.ok /\ last.err = "PointerOutOfBounds"
             /\ result = Failed("PointerOutOfBounds"))
    /\ \A c \in checked :
          <<c[1], size_of(c[2])>> \in accepted /\ InBuffer(c[1], size_of(c[2]))
    /\ \A a \in reads : InBuf(a)

\* A box whose pointer wrapped around the address space, or points past the
\* end of the buffer, has been refused.
C1_Witness ==
    /\ Len(frames) >= 2
    /\ last.op = "check_subtree_ptr"
    /\ ~InBuffer(last.a, last.b)
    /\ result = Failed("PointerOutOfBounds")
    /\ checked # {}

\* C2: check_subtree_ptr(ptr, layout) succeeds exactly when
\* start <= ptr and ptr + layout.size <= end for the active range
\* [start, end), and returns an error for every other ptr and size.
C2_CheckSubtreePtrIff ==
    last.op = "check_subtree_ptr"
    => /\ last.ok <=> (last.pre.start <= last.a /\ last.a + last.b <= last.pre.end)
       /\ ~last.ok => (last.err # "none" /\ result.state = "Err")
       /\ validator = last.pre

\* A pointer just below the start of a pushed range is refused although its
\* end lies inside the range.
C2_Witness ==
    /\ last.op = "check_subtree_ptr"
    /\ last.pre.stack # << >>
    /\ ~last.ok
    /\ last.a < last.pre.start
    /\ last.a + last.b <= last.pre.end
    /\ last.b > 0


\* C3 as stated: push_subtree_range(root, end) installs [root, end) as the
\* active range and returns the remainder [end, cur_end).
C3_Original ==
    last.op = "push_subtree_range"
    => /\ validator.start = last.a
       /\ validator.end = last.b
       /\ last.ret = [start |-> last.b, end |-> last.pre.end]

\* C3, amended: push_subtree_range(root, end), called when the active range
\* is [cur_start, cur_end), leaves [cur_start, root) as the active range and
\* returns exactly the remainder [end, cur_end).
C3_PushInstallsPrefix ==
    last.op = "push_subtree_range"
    => /\ validator.start = last.pre.start
       /\ validator.end = last.a
       /\ last.ret = [start |-> last.b, end |-> last.pre.end]
       /\ validator.stack = Append(last.pre.stack, last.ret)

\* A push of a non-empty [root, end) strictly inside a non-empty range.
C3_Witness ==
    /\ last.op = "push_subtree_range"
    /\ last.pre.start < last.a
    /\ last.a < last.b
    /\ last.b < last.pre.end
    /\ validator.end = last.a

\* C4: after push_subtree_range(root, end) the subtree range starts at the
\* original start and ends at root; after the returned range has been popped
\* the subtree range starts at end and ends at the original end.
C4_PushThenPopRanges ==
    /\ (held # << >> /\ last.op = "push_subtree_range")
       => LET h == held[Len(held)]
          IN  /\ validator.start = h.orig.start
              /\ validator.end = h.root
    /\ (last.op = "pop_subtree_range" /\ last.ok)
       => LET h == last.held[last.i]
          IN  /\ validator.start = h.end
              /\ validator.end = h.orig.end

\* The range returned by a push with root < end < original end was popped.
C4_Witness ==
    /\ last.op = "pop_subtree_range"
    /\ last.ok
    /\ last.held[last.i].orig.start < last.held[last.i].root
    /\ last.held[last.i].root < last.held[last.i].end
    /\ last.held[last.i].end < last.held[last.i].orig.end

\* C5 as stated: pop_subtree_range(range) succeeds, making `range` the active
\* range, when range.start equals the end of the active range, and returns an
\* error whenever range.start differs from it.
C5_Original ==
    last.op = "pop_subtree_range"
    => /\ last.ok <=> (last.a = last.pre.end)
       /\ last.ok => (validator.start = last.a /\ validator.end = last.b)

\* C5, amended: pop_subtree_range(range) makes `range` the active range when
\* `range` is the range returned by the innermost push not yet popped, whether
\* or not range.start equals the end of the active range; for any other
\* range it returns an error, validation has failed and the context is left
\* as it was.
C5_PopRestoresInnermost ==
    last.op = "pop_subtree_range"
    => LET top == last.held[Len(last.held)].range
           range == [start |-> last.a, end |-> last.b]
       IN  /\ last.ok <=> (range = top)
           /\ last.ok => /\ validator.start = last.a
                         /\ validator.end = last.b
                         /\ result.state = "none"
           /\ ~last.ok => /\ last.err = "OutOfOrderPop"
                          /\ result = Failed("OutOfOrderPop")
                          /\ validator = last.pre

\* A pop that succeeded with range.start beyond the end of the active range.
C5_Witness ==
    /\ last.op = "pop_subtree_range"
    /\ last.ok
    /\ last.a > last.pre.end
    /\ validator.start = last.a

\* C6: with R1 pushed and then R2 pushed inside it, popping R1's range
\* before R2's returns an OutOfOrderPop error; a pop succeeds only for the
\* range of the innermost push not yet popped, so only the exact reverse of
\* the push order succeeds.
C6_RangeDiscipline ==
    (last.op = "pop_subtree_range" /\ Len(last.held) >= 2)
    => LET n == Len(last.held)
       IN  /\ (last.i < n /\ last.held[last.i].range # last.held[n].range)
              => (~last.ok /\ last.err = "OutOfOrderPop" /\ held = last.held)
           /\ last.i = n
              => (last.ok /\ held = SubSeq(last.held, 1, n - 1))
           /\ last.ok => last.held[last.i].range = last.held[n].range

\* R1's range was popped while R2, pushed inside R1, was still pushed.
C6_Witness ==
    /\ last.op = "pop_subtree_range"
    /\ Len(last.held) = 2
    /\ last.i = 1
    /\ last.held[2].orig.end = last.held[1].root
    /\ last.held[2].end <= last.held[1].root
    /\ last.held[1].range # last.held[2].range
    /\ ~last.ok


\* A range that is well formed and lies inside the range `outer`.
SubRange(r, outer) == outer.start <= r.start /\ r.start <= r.end /\ r.end <= outer.end

Buffer == [start |-> base, end |-> base + len]
ActiveRange(c) == [start |-> c.start, end |-> c.end]

\* C7: while a validation pass has not failed, the subtree ranges nest: the
\* range a push installs and the range it returns are sub-intervals of the
\* range that was active at the moment of the push, the range a pop installs
\* is one of those, and the active range and every range still pushed lie
\* inside the buffer.
C7_RangesNest ==
    result.state # "Err"
    => /\ SubRange(ActiveRange(validator), Buffer)
       /\ \A i \in 1 .. Len(validator.stack) : SubRange(validator.stack[i], Buffer)
       /\ last.op = "push_subtree_range"
          => /\ SubRange(ActiveRange(validator), ActiveRange(last.pre))
             /\ SubRange(last.ret, ActiveRange(last.pre))
             /\ SubRange([start |-> last.a, end |-> last.b], ActiveRange(last.pre))
       /\ \A i \in 1 .. Len(frames) :
             Len(frames[i].steps) \in {2, 3}
             => /\ Len(validator.stack) >= i
                /\ validator.stack[i] = frames[i].range
                /\ i > 1 => SubRange([start |-> frames[i].ptr,
                                      end |-> frames[i].range.start],
                                     [start |-> base, end |-> frames[i - 1].ptr])

\* Three ranges are pushed one inside the other: root, Inner and Leaf.
C7_Witness ==
    /\ result.state = "none"
    /\ Len(validator.stack) = 3
    /\ Len(frames) = 3
    /\ frames[3].range # NoRange

\* C8: when check_pos_with_context returns success, every range pushed during
\* the pass has been popped (as many successful pops as pushes, none still
\* pushed, no call still open) and no check failed on the way.
C8_SuccessIsBalanced ==
    result.state = "Ok"
    => /\ validator.stack = << >>
       /\ frames = << >>
       /\ counts.push = counts.pop
       /\ counts.push >= 1
       /\ counts.fail = 0
       /\ counts.push = Cardinality(checked)

\* A pass over a root with two boxes (three pushes) succeeded.
C8_Witness ==
    /\ result.state = "Ok"
    /\ rootTy = "Pair"
    /\ counts.push = 3
    /\ counts.pop = 3

\* C9: an access entry point returns a reference only when
\* check_pos_with_context returned success, and then the reference to the
\* position that was checked, of the kind (shared or pinned mutable) asked
\* for; when validation failed the entry point has returned no reference.
C9_ReferenceOnlyAfterSuccess ==
    /\ ref.some => (result.state = "Ok" /\ ref.pos = pos /\ ref.mutable = mutable
                      /\ <<base + pos, rootTy>> \in checked)
    /\ (pc = "done" /\ result.state = "Err") => ref = NoRef
    /\ (pc = "done" /\ result.state = "Ok") => ref.some

\* A _mut entry point has returned the error of a failed validation.
C9_Witness ==
    /\ pc = "done"
    /\ mutable
    /\ result.state = "Err"
    /\ result.err = "PointerOutOfBounds"
    /\ ref = NoRef

Order == <<"bounds", "push", "check_bytes", "pop">>
IsPrefix(a, b) == Len(a) <= Len(b) /\ a = SubSeq(b, 1, Len(a))

\* C10: every verify (and check_pos_with_context) call runs its steps in the
\* order bounds check, push, check_bytes, pop: the steps a call has run are
\* always a prefix of that order, a call that returned Ok ran all four, a call
\* waiting for a nested verify is inside its check_bytes, and once a step has
\* failed the pass has ended with that error and no further step runs.
C10_VerifyOrder ==
    /\ \A i \in 1 .. Len(frames) : IsPrefix(frames[i].steps, Order)
    /\ \A i \in 1 .. Len(frames) - 1 : Len(frames[i].steps) = 3
    /\ completed \in {<< >>, Order}
    /\ (result.state = "none" /\ frames # << >>)
       => pc \in (CASE Len(Top.steps) = 0 -> {"bounds"}
                    [] Len(Top.steps) = 1 -> {"push"}
                    [] Len(Top.steps) = 2 -> {"check_bytes"}
                    [] Len(Top.steps) = 3 -> {"check_bytes", "pop"}
                    [] OTHER -> {"ret"})
    /\ result.state = "Err"
       => /\ pc \in {"exit", "done"}
          /\ frames # << >> =>
               /\ Top.steps # << >>
               /\ counts.fail = 1
               /\ Top.range # NoRange <=> Len(Top.steps) >= 3

\* One box was verified through all four steps and a later one failed.
C10_Witness ==
    /\ completed = Order
    /\ result.state = "Err"
    /\ Len(frames) = 2
    /\ Top.steps = <<"bounds">>

\* ===================================================== SharedContext
\* Bounds of the shared-pointer registry runs.
MaxCalls == 4
MaxAddr == 2

SharedAddrs == 0 .. MaxAddr
TypeIds == {"Leaf", "Inner"}

\* The value register_shared_ptr returns with the context it leaves.
Registered(c, ok, err, ret) == [ctx |-> c, ok |-> ok, err |-> err, ret |-> ret]

type_conflict_Never(c, address, type_id) == FALSE

\* The address is already recorded under another type identity.
type_conflict(c, address, type_id) ==
    \E p \in c.reg : p[1] = address /\ p[2] # type_id

register_shared_ptr_AlwaysNew(c, address, type_id) ==
    IF type_conflict(c, address, type_id)
    THEN Registered(c, FALSE, "SharedTypeConflict", FALSE)
    ELSE Registered([c EXCEPT !.reg = @ \cup {<<address, type_id>>}],
                    TRUE, "none", TRUE)

\* SharedContext::register_shared_ptr: true if the pointer was newly
\* registered (check_bytes should be called), false if it was registered
\* before.
register_shared_ptr(c, address, type_id) ==
    IF type_conflict(c, address, type_id)
    THEN Registered(c, FALSE, "SharedTypeConflict", FALSE)
    ELSE IF <<address, type_id>> \in c.reg
         THEN Registered(c, TRUE, "none", FALSE)
         ELSE Registered([c EXCEPT !.reg = @ \cup {<<address, type_id>>}],
                         TRUE, "none", TRUE)

\* impl SharedContext for Strategy<T, E>: forwards to the wrapped context.
strategy_register_shared_ptr(c, address, type_id) ==
    register_shared_ptr(c, address, type_id)

\* The variables of the validation pass, which the registry runs leave alone.
passVars == <<len, base, bytes, rootTy, pos, mutable, validator, frames, pc,
              result, ref, accepted, checked, reads, last, counts, completed,
              held, reloc, entry, other, ext, args>>

\* No pass is running: an empty buffer and an idle entry point.
PassIdle ==
    /\ len = 0
    /\ base = 1
    /\ bytes = << >>
    /\ rootTy = "Pair"
    /\ pos = 0
    /\ mutable = FALSE
    /\ validator = new_validator(base, base + len)
    /\ frames = << >>
    /\ pc = "idle"
    /\ result = NoResult
    /\ ref = NoRef
    /\ accepted = {}
    /\ checked = {}
    /\ reads = {}
    /\ last = NoCall
    /\ counts = [push |-> 0, pop |-> 0, fail |-> 0]
    /\ completed = << >>
    /\ held = << >>
    /\ reloc = NoReloc
    /\ entry = NoEntry
    /\ other = NoPass
    /\ ext = NoExt
    /\ args = NoArgs

InitShared ==
    /\ PassIdle
    /\ shared = new_shared
    /\ ser = NoSer
    /\ enc = NoEnc
    /\ rel = NoRel

\* One call of register_shared_ptr on the context, with any address and any
\* type identity; the call and its answer are appended to the log.
RegisterSharedPtr ==
    /\ Len(shared.log) < MaxCalls
    /\ \E address \in SharedAddrs, type_id \in TypeIds :
         LET r == strategy_register_shared_ptr(shared, address, type_id) IN
           shared' = [reg |-> r.ctx.reg,
                      log |-> Append(shared.log,
                                     [address |-> address, type_id |-> type_id,
                                      ok |-> r.ok, err |-> r.err,
                                      ret |-> r.ret, pre |-> shared.reg]),
                      failed |-> shared.failed \/ ~r.ok]
    /\ UNCHANGED <<passVars, ser, enc, rel>>

NextShared == RegisterSharedPtr

SpecShared == InitShared /\ [][NextShared]_vars

\* The calls made so far for one address, in order.
CallsFor(address) ==
    SelectSeq(shared.log, LAMBDA e : e.address = address)

\* C11: over any sequence of register_shared_ptr calls on one context, for
\* each address the first call returns true, no other call for that address
\* returns true, and every later call with the type identity of the first
\* registration returns false.
C11_TrueExactlyOnce ==
    \A address \in SharedAddrs :
        LET cs == CallsFor(address) IN
          cs # << >> =>
            /\ cs[1].ok /\ cs[1].ret
            /\ \A j \in 2 .. Len(cs) :
                 /\ ~cs[j].ret
                 /\ cs[j].type_id = cs[1].type_id => cs[j].ok

\* One address was registered three times under the same type identity: N
\* pointers to one value, of which only the first asks for a check.
C11_Witness ==
    \E address \in SharedAddrs :
        LET cs == CallsFor(address) IN
          /\ Len(cs) = 3
          /\ \A j \in 1 .. 3 : cs[j].type_id = cs[1].type_id
          /\ Len(shared.log) = MaxCalls

\* C12: a call that registers an address already recorded under another type
\* identity returns the SharedTypeConflict error and records nothing; no
\* address is ever recorded under two type identities; and once two calls
\* have named one address with different type identities the validation
\* that made them has failed.
C12_TypeConflictRejected ==
    /\ \A i \in 1 .. Len(shared.log) :
         LET e == shared.log[i] IN
           (\E p \in e.pre : p[1] = e.address /\ p[2] # e.type_id)
             => /\ ~e.ok
                /\ e.err = "SharedTypeConflict"
                /\ (IF i < Len(shared.log) THEN shared.log[i + 1].pre
                                           ELSE shared.reg) = e.pre
    /\ \A p, q \in shared.reg : p[1] = q[1] => p[2] = q[2]
    /\ (\E i, j \in 1 .. Len(shared.log) :
          /\ shared.log[i].address = shared.log[j].address
          /\ shared.log[i].type_id # shared.log[j].type_id)
       => shared.failed

\* An address registered as one type was registered again as another, and the
\* registry still holds an entry for a second address.
C12_Witness ==
    /\ shared.failed
    /\ Cardinality(shared.reg) = 2
    /\ \E i \in 2 .. Len(shared.log) :
         /\ shared.log[i].err = "SharedTypeConflict"
         /\ \E p \in shared.log[i].pre :
              p[1] = shared.log[i].address /\ p[2] # shared.log[i].type_id

\* ========================================================= serializer
\* Bounds of the serializer runs: the capacity of the fixed writer and of the
\* fixed scratch space (the W and A of CoreSerializer<W, A>).
WCap == 3
ACap == 2

NoCap == 0 - 1
ByteVals == {0, 1}
\* The byte strings handed to write.
Chunks ==
    {<< >>} \cup {<<a>> : a \in ByteVals} \cup {<<a, b>> : a, b \in ByteVals}
\* The sizes of the layouts handed to push_alloc.
Layouts == {1, 2}
\* The addresses of the source values that may be shared.
SerAddrs == {0, 1}

None == [some |-> FALSE, pos |-> 0]
Some(p) == [some |-> TRUE, pos |-> p]

\* What a call leaves and returns: the component (or Composite) after the
\* call, Ok or the error, and the value inside Ok.
Done(c, ok, err, ret) == [c |-> c, ok |-> ok, err |-> err, ret |-> ret]

\* ---- the writers: BufferWriter over a fixed array, and the growable AlignedVec
BufferWriter(cap) == [buf |-> << >>, cap |-> cap]
AlignedVec == [buf |-> << >>, cap |-> NoCap]

W_pos(w) == Len(w.buf)

W_write(w, bs) ==
    IF w.cap # NoCap /\ Len(w.buf) + Len(bs) > w.cap
    THEN Done(w, FALSE, "CapacityExhausted", 0)
    ELSE Done([w EXCEPT !.buf = @ \o bs], TRUE, "none", 0)

\* ---- the allocators: BufferAllocator over a fixed array, and GlobalAllocator
BufferAllocator(cap) == [stack |-> << >>, cap |-> cap]
GlobalAllocator == [stack |-> << >>, cap |-> NoCap]

\* The scratch space in use: the end of the most recent allocation.
used(a) ==
    IF a.stack = << >> THEN 0
    ELSE a.stack[Len(a.stack)].ptr + a.stack[Len(a.stack)].size

A_push_alloc(a, layout) ==
    IF a.cap # NoCap /\ used(a) + layout > a.cap
    THEN Done(a, FALSE, "CapacityExhausted", NoAddr)
    ELSE Done([a EXCEPT !.stack = Append(@, [ptr |-> used(a), size |-> layout])],
              TRUE, "none", used(a))

A_pop_alloc(a, ptr, layout) ==
    IF a.stack # << >> /\ a.stack[Len(a.stack)] = [ptr |-> ptr, size |-> layout]
    THEN Done([a EXCEPT !.stack = SubSeq(@, 1, Len(@) - 1)], TRUE, "none", 0)
    ELSE Done(a, FALSE, "NotPoppedInReverseOrder", 0)

\* ---- the sharing strategies: Unify records positions, Duplicate records none
Unify == [mode |-> "Unify", map |-> {}]
Duplicate == [mode |-> "Duplicate", map |-> {}]

S_get_shared_ptr(s, address) ==
    IF \E e \in s.map : e[1] = address
    THEN Some((CHOOSE e \in s.map : e[1] = address)[2])
    ELSE None

S_add_shared_ptr(s, address, p) ==
    IF s.mode = "Duplicate" THEN Done(s, TRUE, "none", 0)
    ELSE IF \E e \in s.map : e[1] = address
         THEN Done(s, FALSE, "DuplicateSharedPointer", 0)
         ELSE Done([s EXCEPT !.map = @ \cup {<<address, p>>}], TRUE, "none", 0)

\* ---- Composite<W, A, S>
Composite_new(writer, allocator, share) ==
    [writer |-> writer, allocator |-> allocator, share |-> share]

into_raw_parts(c) == <<c.writer, c.allocator, c.share>>

into_writer(c) == c.writer

Composite_pos(c) == W_pos(c.writer)

Composite_write_Restart(c, bs) ==
    LET r == W_write([c.writer EXCEPT !.buf = << >>], bs)
    IN  Done([c EXCEPT !.writer = r.c], r.ok, r.err, r.ret)

Composite_write(c, bs) ==
    LET r == W_write(c.writer, bs)
    IN  Done([c EXCEPT !.writer = r.c], r.ok, r.err, r.ret)

\* push_alloc that takes the scratch space out of the writer: the layout's
\* bytes are written as well.
Composite_push_alloc_InWriter(c, layout) ==
    LET r == A_push_alloc(c.allocator, layout)
    IN  Done([c EXCEPT !.allocator = r.c,
                       !.writer.buf = @ \o [i \in 1 .. layout |-> 0]],
             r.ok, r.err, r.ret)

Composite_push_alloc(c, layout) ==
    LET r == A_push_alloc(c.allocator, layout)
    IN  Done([c EXCEPT !.allocator = r.c], r.ok, r.err, r.ret)

Composite_pop_alloc(c, ptr, layout) ==
    LET r == A_pop_alloc(c.allocator, ptr, layout)
    IN  Done([c EXCEPT !.allocator = r.c], r.ok, r.err, r.ret)

Composite_get_shared_ptr_None(c, address) == None

Composite_get_shared_ptr(c, address) == S_get_shared_ptr(c.share, address)

Composite_add_shared_ptr_Swapped(c, address, p) ==
    LET r == S_add_shared_ptr(c.share, p, address)
    IN  Done([c EXCEPT !.share = r.c], r.ok, r.err, r.ret)

Composite_add_shared_ptr(c, address, p) ==
    LET r == S_add_shared_ptr(c.share, address, p)
    IN  Done([c EXCEPT !.share = r.c], r.ok, r.err, r.ret)

\* The fixed-capacity serializer with the deduplicating strategy.
CoreSerializer_Unify ==
    Composite_new(BufferWriter(WCap), BufferAllocator(ACap), Unify)

CoreSerializer_Growable ==
    Composite_new(AlignedVec, GlobalAllocator, Duplicate)

CoreSerializer ==
    Composite_new(BufferWriter(WCap), BufferAllocator(ACap), Duplicate)

AllocSerializer == Composite_new(AlignedVec, GlobalAllocator, Unify)

\* ---- the runs of a serializer
\* No call was made on the serializer yet.
NoSerCall ==
    [op |-> "none", a |-> 0, b |-> 0, ok |-> TRUE, err |-> "none", ret |-> 0,
     alone |-> [ok |-> TRUE, err |-> "none", ret |-> 0]]

\* A serializer as constructed, next to the same three components on their
\* own; written is the length of the byte strings written successfully,
\* first the successful add_shared_ptr calls, pre the Composite before the
\* last call.
NewSer(kind, c) ==
    [kind |-> kind, comp |-> c, alone |-> c, lastc |-> NoSerCall, pre |-> c,
     written |-> 0, first |-> {}]

InitSer ==
    /\ PassIdle
    /\ shared = new_shared
    /\ enc = NoEnc
    /\ rel = NoRel
    /\ \/ ser = NewSer("CoreSerializer", CoreSerializer)
       \/ ser = NewSer("AllocSerializer", AllocSerializer)

\* The growable components grow without a limit of their own; the runs stop
\* them at the size of the fixed capacities.
WithinRun(c) ==
    ser.kind = "AllocSerializer" =>
        /\ Len(c.writer.buf) <= WCap
        /\ used(c.allocator) <= ACap

\* The state after one call: on the Composite with result r, and on the
\* component alone with result ra.
AfterCall(op, a, b, c, r, alone, ra, n, f) ==
    [ser EXCEPT !.comp = c, !.alone = alone, !.pre = ser.comp,
                !.lastc = [op |-> op, a |-> a, b |-> b, ok |-> r.ok,
                           err |-> r.err, ret |-> r.ret,
                           alone |-> [ok |-> ra.ok, err |-> ra.err,
                                      ret |-> ra.ret]],
                !.written = n, !.first = f]

SerPos ==
    /\ ser.kind # "none"
    /\ LET r == Done(ser.comp, TRUE, "none", Composite_pos(ser.comp))
           ra == Done(ser.alone.writer, TRUE, "none", W_pos(ser.alone.writer))
       IN  ser' = AfterCall("pos", 0, 0, ser.comp, r, ser.alone, ra,
                            ser.written, ser.first)
    /\ UNCHANGED <<passVars, shared, enc, rel>>

SerWrite ==
    /\ ser.kind # "none"
    /\ \E bs \in Chunks :
         LET r == Composite_write(ser.comp, bs)
             ra == W_write(ser.alone.writer, bs)
         IN  /\ WithinRun(r.c)
             /\ ser' = AfterCall("write", bs, 0, r.c, r,
                                 [ser.alone EXCEPT !.writer = ra.c], ra,
                                 IF r.ok THEN ser.written + Len(bs)
                                         ELSE ser.written,
                                 ser.first)
    /\ UNCHANGED <<passVars, shared, enc, rel>>

SerPushAlloc ==
    /\ ser.kind # "none"
    /\ \E layout \in Layouts :
         LET r == Composite_push_alloc(ser.comp, layout)
             ra == A_push_alloc(ser.alone.allocator, layout)
         IN  /\ WithinRun(r.c)
             /\ ser' = AfterCall("push_alloc", layout, 0, r.c, r,
                                 [ser.alone EXCEPT !.allocator = ra.c], ra,
                                 ser.written, ser.first)
    /\ UNCHANGED <<passVars, shared, enc, rel>>

\* pop_alloc is unsafe: its caller passes the most recent allocation.
SerPopAlloc ==
    /\ ser.kind # "none"
    /\ ser.comp.allocator.stack # << >>
    /\ LET top == ser.comp.allocator.stack[Len(ser.comp.allocator.stack)]
           r == Composite_pop_alloc(ser.comp, top.ptr, top.size)
           ra == A_pop_alloc(ser.alone.allocator, top.ptr, top.size)
       IN  ser' = AfterCall("pop_alloc", top.ptr, top.size, r.c, r,
                            [ser.alone EXCEPT !.allocator = ra.c], ra,
                            ser.written, ser.first)
    /\ UNCHANGED <<passVars, shared, enc, rel>>

SerGetSharedPtr ==
    /\ ser.kind # "none"
    /\ \E address \in SerAddrs :
         LET r == Done(ser.comp, TRUE, "none",
                       Composite_get_shared_ptr(ser.comp, address))
             ra == Done(ser.alone.share, TRUE, "none",
                        S_get_shared_ptr(ser.alone.share, address))
         IN  ser' = AfterCall("get_shared_ptr", address, 0, ser.comp, r,
                              ser.alone, ra, ser.written, ser.first)
    /\ UNCHANGED <<passVars, shared, enc, rel>>

SerAddSharedPtr ==
    /\ ser.kind # "none"
    /\ \E address \in SerAddrs, p \in {0, Composite_pos(ser.comp)} :
         LET r == Composite_add_shared_ptr(ser.comp, address, p)
             ra == S_add_shared_ptr(ser.alone.share, address, p)
         IN  ser' = AfterCall("add_shared_ptr", address, p, r.c, r,
                              [ser.alone EXCEPT !.share = ra.c], ra,
                              ser.written,
                              IF r.ok /\ ~\E e \in ser.first : e[1] = address
                              THEN ser.first \cup {<<address, p>>}
                              ELSE ser.first)
    /\ UNCHANGED <<passVars, shared, enc, rel>>

NextSer ==
    \/ SerPos
    \/ SerWrite
    \/ SerPushAlloc
    \/ SerPopAlloc
    \/ SerGetSharedPtr
    \/ SerAddSharedPtr

SpecSer == InitSer /\ [][NextSer]_vars

\* The position of the first successful add_shared_ptr for an address.
FirstAdd(address) ==
    IF \E e \in ser.first : e[1] = address
    THEN Some((CHOOSE e \in ser.first : e[1] = address)[2])
    ELSE None

\* C13: with the deduplicating strategy, get_shared_ptr(address) is None
\* until an add_shared_ptr for the address has succeeded and from then on is
\* Some of the position of the first successful add; no call removes or
\* changes a recorded position.
C13_FirstAddWins ==
    ser.kind = "AllocSerializer" =>
        /\ \A address \in SerAddrs :
             Composite_get_shared_ptr(ser.comp, address) = FirstAdd(address)
        /\ ser.lastc.op = "get_shared_ptr"
             => ser.lastc.ret = FirstAdd(ser.lastc.a)
        /\ ser.pre.share.map \subseteq ser.comp.share.map
        /\ \A e, f \in ser.comp.share.map : e[1] = f[1] => e[2] = f[2]

\* An address was added at position 0, a later add for it at another
\* position was refused, and the lookup still answers position 0.
C13_Witness ==
    /\ ser.kind = "AllocSerializer"
    /\ ser.lastc.op = "add_shared_ptr"
    /\ ~ser.lastc.ok
    /\ ser.lastc.b > 0
    /\ Composite_get_shared_ptr(ser.comp, ser.lastc.a) = Some(0)
    /\ Composite_get_shared_ptr(ser.comp, 1 - ser.lastc.a) = None

\* ================================================ relative pointers, boxes
\* Bound: the width in bits of the offset field of a relative pointer.
OffBits == 3

OFF_MIN == 0 - 2 ^ (OffBits - 1)
OFF_MAX == 2 ^ (OffBits - 1) - 1

\* The metadata of a pointee: () for a sized one, a length for a slice.
Metadatas == {0, 2}

\* RelPtr::emplace_unsized(to, metadata, out): the offset stored is the
\* position of the pointee minus the position of the pointer's own slot; an
\* offset the field cannot hold is not stored.  The call has no value to
\* return (its caller ends it with `;` and itself returns nothing): it
\* returns () or, with ret "panic", does not return.
emplace_unsized(to, metadata, out) ==
    LET offset == to - out.pos
    IN  IF offset < OFF_MIN \/ offset > OFF_MAX
        THEN [ok |-> FALSE, err |-> "OffsetOutOfRange", ptr |-> out.ptr,
              ret |-> "panic"]
        ELSE [ok |-> TRUE, err |-> "none",
              ptr |-> [offset |-> offset, metadata |-> metadata],
              ret |-> "unit"]

\* RelPtr::as_ptr: the address of the pointer's own slot plus the offset,
\* with the stored metadata.
as_ptr(self, ptr) ==
    [addr |-> wrapping_offset(self, ptr.offset), metadata |-> ptr.metadata]

\* BoxResolver::from_pos
from_pos(p) == [pos |-> p]

\* A Place: a position in the buffer and what is stored there so far.
Place(p, ptr) == [pos |-> p, ptr |-> ptr]

\* The slot of a relative pointer before anything was emplaced in it.
NoPtr == [offset |-> 0, metadata |-> 0]

\* resolve_from_raw_parts storing the low bits of an offset that does not fit.
resolve_from_raw_parts_Truncate(resolver, metadata, out) ==
    [ok |-> TRUE, err |-> "none",
     ptr |-> [offset |-> ((resolver.pos - out.pos - OFF_MIN) % 2 ^ OffBits)
                         + OFF_MIN,
              metadata |-> metadata],
     ret |-> "unit"]

\* resolve_from_raw_parts with the metadata left out.
resolve_from_raw_parts_NoMetadata(resolver, metadata, out) ==
    emplace_unsized(resolver.pos, 0, out)

\* ArchivedBox::resolve_from_raw_parts
resolve_from_raw_parts(resolver, metadata, out) ==
    emplace_unsized(resolver.pos, metadata, out)

\* ArchivedBox::resolve_from_ref, for a value with the given metadata
resolve_from_ref(value_metadata, resolver, out) ==
    resolve_from_raw_parts(resolver, value_metadata, out)

\* ArchivedBox::get, for the box stored at address self
get(self, box) == as_ptr(self, box.ptr)

\* ===================================================== an encode pass
\* Bound: the serialization attempts made on one serializer.
MaxAttempts == 2

\* A pointer field is an owning box or a shared (reference-counted) pointer.
PtrKinds == {"Box", "Rc"}
Fields == [address : SerAddrs, kind : PtrKinds]
\* The values serialized: one or two pointer fields.
Values == {<<f>> : f \in Fields} \cup {<<f, g>> : f, g \in Fields}

\* The bytes of the pointee found at a source address, and the size of the
\* scratch space its serialization asks for.
pointee(address) == <<address>>
scratch_layout(address) == 1 + address

\* serialize_unsized returning a failed write's error at once.
serialize_unsized_Leak(c, address) ==
    LET a == Composite_push_alloc(c, scratch_layout(address)) IN
      IF ~a.ok THEN Done(a.c, FALSE, a.err, 0)
      ELSE LET p == Composite_pos(a.c)
               w == Composite_write(a.c, pointee(address))
               r == Composite_pop_alloc(w.c, a.ret, scratch_layout(address))
           IN  IF ~w.ok THEN Done(w.c, FALSE, w.err, 0)
               ELSE IF ~r.ok THEN Done(r.c, FALSE, r.err, 0)
               ELSE Done(r.c, TRUE, "none", p)

\* SerializeUnsized::serialize_unsized of a pointee: takes scratch space,
\* writes the pointee, releases the scratch space whether or not the write
\* succeeded, and returns the position the pointee was written at.
serialize_unsized(c, address) ==
    LET a == Composite_push_alloc(c, scratch_layout(address)) IN
      IF ~a.ok THEN Done(a.c, FALSE, a.err, 0)
      ELSE LET p == Composite_pos(a.c)
               w == Composite_write(a.c, pointee(address))
               r == Composite_pop_alloc(w.c, a.ret, scratch_layout(address))
           IN  IF ~w.ok THEN Done(r.c, FALSE, w.err, 0)
               ELSE IF ~r.ok THEN Done(r.c, FALSE, r.err, 0)
               ELSE Done(r.c, TRUE, "none", p)

\* The serialization of a shared pointer: a pointee whose address the
\* registry knows is not serialized again.
serialize_shared(c, address) ==
    LET g == Composite_get_shared_ptr(c, address) IN
      IF g.some THEN Done(c, TRUE, "none", from_pos(g.pos))
      ELSE LET r == serialize_unsized(c, address) IN
             IF ~r.ok THEN r
             ELSE LET a == Composite_add_shared_ptr(r.c, address, r.ret)
                  IN  IF a.ok THEN Done(a.c, TRUE, "none", from_pos(r.ret))
                      ELSE Done(a.c, FALSE, a.err, 0)

serialize_from_ref_Shared(c, address) == serialize_shared(c, address)

\* serialize_from_ref answering with the writer's position after the pointee.
serialize_from_ref_PosAfter(c, address) ==
    LET r == serialize_unsized(c, address)
    IN  IF r.ok THEN Done(r.c, TRUE, "none", from_pos(Composite_pos(r.c)))
        ELSE r

\* ArchivedBox::serialize_from_ref
serialize_from_ref(c, address) ==
    LET r == serialize_unsized(c, address)
    IN  IF r.ok THEN Done(r.c, TRUE, "none", from_pos(r.ret)) ELSE r

\* No field was serialized in this attempt yet.
NoField ==
    [kind |-> "none", ok |-> TRUE, err |-> "none", ret |-> from_pos(0),
     unsized |-> [ok |-> TRUE, err |-> "none", ret |-> 0],
     before |-> 0, after |-> 0]

\* What serializing a field returned, next to what serialize_unsized returns
\* for its pointee on the same serializer, and the writer's position before
\* and after.
FieldCall(f, r, c) ==
    LET u == serialize_unsized(c, f.address)
    IN  [kind |-> f.kind, ok |-> r.ok, err |-> r.err, ret |-> r.ret,
         unsized |-> [ok |-> u.ok, err |-> u.err, ret |-> u.ret],
         before |-> Composite_pos(c), after |-> Composite_pos(r.c)]

\* Before the first attempt.  adv is the number of bytes each field's
\* serialization advanced the writer by, level the scratch space in use when
\* the attempt started.
NewEnc ==
    [pc |-> "idle", value |-> << >>, i |-> 0, resolvers |-> << >>,
     adv |-> << >>, boxes |-> << >>, rootpos |-> 0, err |-> "none",
     outer |-> NoAddr, level |-> 0, attempts |-> 0, verified |-> FALSE,
     lastf |-> NoField]

InitEnc ==
    /\ PassIdle
    /\ shared = new_shared
    /\ \/ ser = NewSer("CoreSerializer", CoreSerializer)
       \/ ser = NewSer("AllocSerializer", AllocSerializer)
    /\ enc = NewEnc
    /\ rel = NoRel

\* An attempt starts: the value's serialization takes its own scratch space.
EncStart ==
    /\ enc.pc \in {"idle", "done"}
    /\ enc.attempts < MaxAttempts
    /\ \E value \in Values :
         LET r == Composite_push_alloc(ser.comp, 1) IN
           /\ ser' = [ser EXCEPT !.comp = r.c]
           /\ enc' = [NewEnc EXCEPT !.value = value, !.i = 1,
                                   !.pc = IF r.ok THEN "fields" ELSE "done",
                                   !.err = r.err, !.outer = r.ret,
                                   !.level = used(ser.comp.allocator),
                                   !.attempts = enc.attempts
                                                + IF r.ok THEN 0 ELSE 1]
    /\ UNCHANGED <<passVars, shared, rel>>

\* The next pointer field's pointee is serialized.
EncField ==
    /\ enc.pc = "fields"
    /\ LET f == enc.value[enc.i]
           r == IF f.kind = "Box" THEN serialize_from_ref(ser.comp, f.address)
                                  ELSE serialize_shared(ser.comp, f.address)
       IN  /\ ser' = [ser EXCEPT !.comp = r.c]
           /\ enc' = IF r.ok
                     THEN [enc EXCEPT
                             !.lastf = FieldCall(f, r, ser.comp),
                             !.resolvers = Append(@, r.ret),
                             !.adv = Append(@, Composite_pos(r.c)
                                               - Composite_pos(ser.comp)),
                             !.i = @ + 1,
                             !.pc = IF enc.i = Len(enc.value) THEN "root"
                                                              ELSE "fields"]
                     ELSE [enc EXCEPT !.lastf = FieldCall(f, r, ser.comp),
                                      !.err = r.err, !.pc = "end"]
    /\ UNCHANGED <<passVars, shared, rel>>

\* The pointers of all fields, resolved at the slots starting at position q.
ResolveAll(q) ==
    [i \in 1 .. Len(enc.value) |->
        resolve_from_ref(0, enc.resolvers[i], Place(q + i - 1, NoPtr))]

\* The root is resolved and written: one pointer slot for each field.
EncRoot ==
    /\ enc.pc = "root"
    /\ LET q == Composite_pos(ser.comp)
           rs == ResolveAll(q)
           w == Composite_write(ser.comp,
                                [i \in 1 .. Len(enc.value) |-> rs[i].ptr.offset])
       IN  IF \E i \in 1 .. Len(enc.value) : ~rs[i].ok
           THEN /\ enc' = [enc EXCEPT !.err = "OffsetOutOfRange", !.pc = "end"]
                /\ ser' = ser
           ELSE /\ ser' = [ser EXCEPT !.comp = w.c]
                /\ enc' = [enc EXCEPT
                             !.err = w.err, !.pc = "end", !.rootpos = q,
                             !.boxes = IF w.ok
                                       THEN [i \in 1 .. Len(enc.value) |->
                                               [ptr |-> rs[i].ptr]]
                                       ELSE << >>]
    /\ UNCHANGED <<passVars, shared, rel>>

\* The attempt ends, in success or in failure: the value's scratch space is
\* released.
EncEnd ==
    /\ enc.pc = "end"
    /\ LET r == Composite_pop_alloc(ser.comp, enc.outer, 1) IN
         /\ ser' = [ser EXCEPT !.comp = r.c]
         /\ enc' = [enc EXCEPT !.pc = "done", !.attempts = @ + 1,
                               !.err = IF enc.err = "none" THEN r.err
                                                           ELSE enc.err]
    /\ UNCHANGED <<passVars, shared, rel>>

RECURSIVE RegisterAll(_, _)
\* The registrations the validation of the written value makes: one for
\* each shared pointer, with the address the pointer resolves to.
RegisterAll(c, i) ==
    IF i > Len(enc.boxes) THEN c
    ELSE IF enc.value[i].kind # "Rc" THEN RegisterAll(c, i + 1)
    ELSE LET address == get(enc.rootpos + i - 1, enc.boxes[i]).addr
             r == register_shared_ptr(c, address, "Leaf")
         IN  RegisterAll([reg |-> r.ctx.reg,
                          log |-> Append(c.log,
                                         [address |-> address,
                                          type_id |-> "Leaf", ok |-> r.ok,
                                          err |-> r.err, ret |-> r.ret,
                                          pre |-> c.reg]),
                          failed |-> c.failed \/ ~r.ok],
                         i + 1)

\* The value an attempt has written is validated with a registry of its own.
EncVerify ==
    /\ enc.pc = "done"
    /\ enc.err = "none"
    /\ ~enc.verified
    /\ shared' = RegisterAll(new_shared, 1)
    /\ enc' = [enc EXCEPT !.verified = TRUE]
    /\ UNCHANGED <<passVars, ser, rel>>

NextEnc == EncStart \/ EncField \/ EncRoot \/ EncEnd \/ EncVerify

SpecEnc == InitEnc /\ [][NextEnc]_vars

\* An attempt has ended in success on the deduplicating serializer.
DedupDone ==
    /\ ser.kind = "AllocSerializer"
    /\ enc.pc = "done"
    /\ enc.err = "none"

\* What the pointer of field i resolves to in the written buffer.
Target(i) == get(enc.rootpos + i - 1, enc.boxes[i]).addr

\* C14 as stated: with the deduplicating serializer, any two pointer fields
\* that reference the same source address have the pointee written once (the
\* second field does not advance the writer) and resolve to one position.
C14_Original ==
    (DedupDone /\ Len(enc.value) = 2
               /\ enc.value[1].address = enc.value[2].address)
        => /\ enc.adv[2] = 0
           /\ Target(1) = Target(2)

\* C14: with the deduplicating serializer, two shared pointer fields that
\* reference the same source address have the pointee written at most once
\* (the second field does not advance the writer), resolve to one position,
\* and the validation of the result registers that position exactly once;
\* the registry never refuses a pointee; and an owning box does not consult
\* the registry: each box writes its own copy of its pointee, at the position
\* its pointer resolves to.
C14_SharedWrittenOnce ==
    /\ enc.err # "DuplicateSharedPointer"
    /\ DedupDone =>
         \A i \in 1 .. Len(enc.value) :
           /\ enc.value[i].kind = "Box"
                => /\ enc.adv[i] = Len(pointee(enc.value[i].address))
                   /\ \A j \in 1 .. Len(enc.value) : j # i => Target(j) # Target(i)
           /\ enc.value[i].kind = "Rc" => enc.adv[i] \in {0, 1}
           /\ ser.comp.writer.buf[Target(i) + 1] = enc.value[i].address
    /\ (DedupDone /\ Len(enc.value) = 2
                  /\ enc.value[1].kind = "Rc" /\ enc.value[2].kind = "Rc"
                  /\ enc.value[1].address = enc.value[2].address)
         => /\ enc.adv[2] = 0
            /\ Target(1) = Target(2)
            /\ enc.verified
                 => /\ Len(shared.log) = 2
                    /\ shared.log[1].ret /\ ~shared.log[2].ret
                    /\ shared.log[2].ok
                    /\ shared.reg = {<<Target(1), "Leaf">>}

\* Two shared pointers to one source address were serialized in a first
\* attempt: one copy of the pointee was written, and the validation of the
\* result has registered it.
C14_Witness ==
    /\ DedupDone
    /\ enc.verified
    /\ Len(enc.value) = 2
    /\ enc.value[1] = [address |-> 1, kind |-> "Rc"]
    /\ enc.value[2] = [address |-> 1, kind |-> "Rc"]
    /\ enc.adv = <<1, 0>>
    /\ Len(ser.comp.writer.buf) = 3

\* C15: after every sequence of pos, write, push_alloc, pop_alloc,
\* get_shared_ptr and add_shared_ptr calls, the Composite has returned what
\* the same call returned on the writer, the allocator or the sharing
\* strategy alone, and its three parts are in the states of those components.
C15_CompositeForwards ==
    ser.kind # "none" =>
        /\ into_raw_parts(ser.comp)
             = <<ser.alone.writer, ser.alone.allocator, ser.alone.share>>
        /\ ser.lastc.ok = ser.lastc.alone.ok
        /\ ser.lastc.err = ser.lastc.alone.err
        /\ ser.lastc.ret = ser.lastc.alone.ret

\* All three parts have been changed through the Composite, and the last
\* call was a lookup that found a recorded position.
C15_Witness ==
    /\ ser.comp.writer.buf # << >>
    /\ ser.comp.allocator.stack # << >>
    /\ ser.comp.share.map # {}
    /\ ser.lastc.op = "get_shared_ptr"
    /\ ser.lastc.ret.some
    /\ ser.lastc.ret.pos > 0

\* C16: the writer is append-only: pos() is the total length of the byte
\* strings written successfully, no call lowers it, a successful write
\* appends exactly its bytes after the bytes that were there, and every other
\* call (a failed write included) leaves the written bytes as they were.
C16_AppendOnly ==
    ser.kind # "none" =>
        /\ Composite_pos(ser.comp) = ser.written
        /\ Composite_pos(ser.comp) >= Composite_pos(ser.pre)
        /\ SubSeq(ser.comp.writer.buf, 1, Composite_pos(ser.pre))
             = ser.pre.writer.buf
        /\ ser.comp.writer.buf
             = IF ser.lastc.op = "write" /\ ser.lastc.ok
               THEN ser.pre.writer.buf \o ser.lastc.a
               ELSE ser.pre.writer.buf
        /\ ser.lastc.op = "pos" => ser.lastc.ret = ser.written

\* A second write has appended a byte string after a first one.
C16_Witness ==
    /\ ser.lastc.op = "write"
    /\ ser.lastc.ok
    /\ ser.pre.writer.buf = <<1>>
    /\ ser.lastc.a = <<0, 1>>
    /\ ser.comp.writer.buf = <<1, 0, 1>>

\* C17: on the fixed-capacity serializer a write that does not fit in the
\* rest of the writer's capacity returns CapacityExhausted and stores
\* nothing, a push_alloc that does not fit in the rest of the scratch space
\* returns an error, and neither capacity is ever exceeded; on every
\* serializer a write that returns Ok has stored all the bytes it was given.
C17_CapacityExhausted ==
    /\ ser.kind = "CoreSerializer" =>
         /\ Len(ser.comp.writer.buf) <= WCap
         /\ used(ser.comp.allocator) <= ACap
         /\ (ser.lastc.op = "write"
               /\ Len(ser.pre.writer.buf) + Len(ser.lastc.a) > WCap)
              => /\ ~ser.lastc.ok
                 /\ ser.lastc.err = "CapacityExhausted"
                 /\ ser.comp.writer.buf = ser.pre.writer.buf
         /\ (ser.lastc.op = "push_alloc"
               /\ used(ser.pre.allocator) + ser.lastc.a > ACap)
              => /\ ~ser.lastc.ok
                 /\ ser.lastc.err = "CapacityExhausted"
                 /\ ser.comp.allocator = ser.pre.allocator
    /\ (ser.kind # "none" /\ ser.lastc.op = "write" /\ ser.lastc.ok)
         => /\ Len(ser.comp.writer.buf)
                 = Len(ser.pre.writer.buf) + Len(ser.lastc.a)
            /\ SubSeq(ser.comp.writer.buf, Len(ser.pre.writer.buf) + 1,
                      Len(ser.comp.writer.buf)) = ser.lastc.a

\* A write of two bytes into a fixed writer with one byte left was refused,
\* with scratch space still free.
C17_Witness ==
    /\ ser.kind = "CoreSerializer"
    /\ ser.lastc.op = "write"
    /\ ser.lastc.err = "CapacityExhausted"
    /\ Len(ser.lastc.a) = 2
    /\ Len(ser.comp.writer.buf) = WCap - 1
    /\ used(ser.comp.allocator) < ACap

\* C18: scratch space is released on every exit path: between attempts,
\* whether the last one succeeded or failed, the allocator holds no
\* allocation, so every attempt starts with all of the scratch space; while
\* an attempt runs, between two of its fields only the value's own allocation
\* is held; and no pop_alloc is ever refused for being out of order.
C18_ScratchReleased ==
    enc.pc # "none" =>
        /\ enc.pc \in {"idle", "done"}
             => /\ ser.comp.allocator.stack = << >>
                /\ used(ser.comp.allocator) = enc.level
        /\ enc.level = 0
        /\ enc.pc \in {"fields", "root", "end"}
             => ser.comp.allocator.stack = <<[ptr |-> enc.outer, size |-> 1]>>
        /\ enc.err # "NotPoppedInReverseOrder"

\* A second attempt on the fixed-capacity serializer failed for lack of
\* writer capacity after its first field was written, and has ended.
C18_Witness ==
    /\ ser.kind = "CoreSerializer"
    /\ enc.pc = "done"
    /\ enc.attempts = 2
    /\ enc.err = "CapacityExhausted"
    /\ Len(enc.resolvers) = 1
    /\ Len(ser.comp.writer.buf) = WCap
    /\ used(ser.comp.allocator) = 0

\* ============================================ one box, resolved and read
\* Bound: the positions a pointee and a pointer slot may have.
MaxPos == 7

InitPtr ==
    /\ PassIdle
    /\ shared = new_shared
    /\ ser = NoSer
    /\ enc = NoEnc
    /\ rel = [pc |-> "new", base |-> 0, p |-> 0, q |-> 0, metadata |-> 0,
              ok |-> TRUE, box |-> [ptr |-> NoPtr], read |-> NoAddr,
              read_metadata |-> 0, err |-> "none", ret |-> "none"]

\* A box stored at position q of a buffer is resolved to a pointee at
\* position p of the buffer.
PtrResolve ==
    /\ rel.pc = "new"
    /\ \E p \in 0 .. MaxPos, q \in 0 .. MaxPos, metadata \in Metadatas :
         LET r == resolve_from_raw_parts(from_pos(p), metadata,
                                         Place(q, NoPtr))
         IN  rel' = [rel EXCEPT !.pc = "resolved", !.p = p, !.q = q,
                                !.metadata = metadata, !.ok = r.ok,
                                !.box = [ptr |-> r.ptr], !.err = r.err,
                                !.ret = r.ret]
    /\ UNCHANGED <<passVars, shared, ser, enc>>

\* The buffer is placed at a base address where it fits.
PtrPlace ==
    /\ rel.pc = "resolved"
    /\ rel.ok
    /\ \E b \in 0 .. (USIZE - MaxPos - 1) :
         rel' = [rel EXCEPT !.pc = "placed", !.base = b]
    /\ UNCHANGED <<passVars, shared, ser, enc>>

\* The box is dereferenced where it lies.
PtrGet ==
    /\ rel.pc = "placed"
    /\ LET t == get(rel.base + rel.q, rel.box)
       IN  rel' = [rel EXCEPT !.pc = "read", !.read = t.addr,
                              !.read_metadata = t.metadata]
    /\ UNCHANGED <<passVars, shared, ser, enc>>

NextPtr == PtrResolve \/ PtrPlace \/ PtrGet

SpecPtr == InitPtr /\ [][NextPtr]_vars

\* C19: a box resolved at slot position q for a pointee at position p, when
\* p - q fits the offset field, dereferences to the address of position p of
\* the buffer, with the metadata it was resolved with, wherever the buffer
\* lies.
C19_RoundTrip ==
    /\ (rel.pc \in {"resolved", "placed", "read"}
          /\ rel.p - rel.q >= OFF_MIN /\ rel.p - rel.q <= OFF_MAX)
         => /\ rel.ok
            /\ rel.box.ptr = [offset |-> rel.p - rel.q,
                              metadata |-> rel.metadata]
    /\ rel.pc = "read"
         => /\ rel.read = rel.base + rel.p
            /\ rel.read_metadata = rel.metadata

\* A box behind its pointee, with a slice's metadata, was read back in a
\* buffer that does not start at address zero.
C19_Witness ==
    /\ rel.pc = "read"
    /\ rel.base > 0
    /\ rel.q = MaxPos
    /\ rel.p = MaxPos + OFF_MIN
    /\ rel.metadata = 2
    /\ rel.read = rel.base + rel.p

\* C20: relocation independence: every bounds check, push and pop of a pass
\* gives, for the same bytes, the same answer at every base address the
\* buffer can lie at; an accepted pointer resolves to the same position of
\* the buffer (resolved address minus base); and the context after each step
\* is the same context moved by the distance between the bases, so the pass
\* ends in the same outcome everywhere.
C20_RelocationIndependent ==
    /\ reloc.same
    /\ \A a \in accepted : a[1] - base \in 0 .. len

\* A pass over a value with nested boxes, in a buffer at the highest base
\* address, has succeeded, and each kind of step was compared with the step
\* at the other base addresses.
C20_Witness ==
    /\ reloc.same
    /\ reloc.checks = {"bounds", "push", "pop"}
    /\ base = USIZE - MaxLen - 1
    /\ rootTy = "Outer"
    /\ result.state = "Ok"
    /\ \E i \in 1 .. len : bytes[i] \in (0 - MaxBack) .. (0 - 1)

\* The box was resolved for a pointee whose distance from the slot the
\* offset field cannot hold.
Unrepresentable ==
    /\ rel.pc # "new"
    /\ (rel.p - rel.q < OFF_MIN \/ rel.p - rel.q > OFF_MAX)

C22_ResolverIsPointeePosition ==
    /\ (enc.pc # "none" /\ enc.lastf.kind = "Box")
         => /\ enc.lastf.ok = enc.lastf.unsized.ok
            /\ enc.lastf.ok
                 => /\ enc.lastf.ret = from_pos(enc.lastf.unsized.ret)
                    /\ enc.lastf.ret.pos = enc.lastf.before
                    /\ enc.lastf.after
                         = enc.lastf.before
                           + Len(pointee(enc.value[Len(enc.resolvers)].address))
                    /\ enc.resolvers[Len(enc.resolvers)] = enc.lastf.ret
            /\ ~enc.lastf.ok
                 => /\ enc.lastf.err = enc.lastf.unsized.err
                    /\ enc.err = enc.lastf.err
                    /\ Len(enc.resolvers) = enc.i - 1
                    /\ enc.pc \in {"end", "done"}
    /\ (enc.pc = "done" /\ enc.err = "none")
         => \A i \in 1 .. Len(enc.value) :
              enc.value[i].kind = "Box"
                => /\ enc.resolvers[i].pos < enc.rootpos + i - 1
                   /\ enc.boxes[i].ptr.offset < 0

\* A second box was serialized after a first: its resolver holds the
\* position the writer had reached, behind the first pointee.
C22_Witness ==
    /\ enc.pc = "root"
    /\ enc.lastf.kind = "Box"
    /\ enc.lastf.ok
    /\ Len(enc.resolvers) = 2
    /\ enc.lastf.ret = from_pos(1)
    /\ enc.lastf.after = 2


\* ------------------------------------------- the root at the buffer's end
\* The entry points that compute the root position themselves.
RootEntries == {"access", "access_with_context", "access_mut", "access_with_context_mut"}

\* C23: for a buffer at least as long as the root type, access and
\* access_with_context (and their _mut variants) check the value at position
\* len - size_of(T), and the reference they return on success is the
\* reference to the validated value at that position.
C23_RootAtEnd ==
    (entry.name \in RootEntries /\ len >= size_of(rootTy)) =>
        /\ pos = len - size_of(rootTy)
        /\ frames # << >> => frames[1].at = base /\ frames[1].ty = rootTy
        /\ pc = "done" =>
            /\ ref.some <=> result.state = "Ok"
            /\ ref.some =>
                /\ ref.pos = len - size_of(rootTy)
                /\ ref.mutable = mutable
                /\ <<base + (len - size_of(rootTy)), rootTy>> \in checked
                /\ <<base + (len - size_of(rootTy)), size_of(rootTy)>> \in accepted

C23_Witness ==
    /\ entry.name = "access_with_context_mut"
    /\ len > size_of(rootTy)
    /\ pc = "done"
    /\ ref.some
    /\ ref.pos = len - size_of(rootTy)
    /\ ref.pos > 0


\* ------------------------------------------------ validate, then build
\* C24: from_bytes validates first and deserializes afterwards:
\* deserialization starts only once validation of the buffer has returned
\* Ok, from the validated root, and a buffer whose validation failed is never
\* deserialized: from_bytes returns the validation error.
C24_ValidateThenDeserialize ==
    entry.name = "from_bytes" =>
        /\ entry.started =>
            /\ pc = "done"
            /\ result.state = "Ok"
            /\ ref.some
            /\ entry.at = ref.pos
            /\ <<base + entry.at, rootTy>> \in checked
            /\ entry.out = "Ok"
        /\ result.state = "Err" => ~entry.started
        /\ pc # "done" => entry.out = "none"
        /\ entry.out = "Err" =>
            /\ ~entry.started
            /\ result.state = "Err"
            /\ entry.err = result.err
        /\ (pc = "done" /\ entry.out # "none" /\ result.state = "Err") =>
            entry.out = "Err"

C24_Witness ==
    /\ entry.name = "from_bytes"
    /\ entry.out = "Err"
    /\ entry.err = "InvalidBytes"
    /\ ~entry.started
    /\ reads # {}


\* ------------------------------------- passes over one immutable buffer
\* Two calls of access / access_pos on the same `&[u8]`, on two threads. One
\* of them is stepping; `other` holds the one that is not.

\* A call that has not been made yet: its own fresh state.
IdlePass ==
    [rootTy |-> "Pair", pos |-> 0, mutable |-> FALSE,
     validator |-> new_validator(base, base + len), frames |-> << >>,
     pc |-> "idle", result |-> NoResult, ref |-> NoRef, accepted |-> {},
     checked |-> {}, reads |-> {}, last |-> NoCall,
     counts |-> [push |-> 0, pop |-> 0, fail |-> 0], completed |-> << >>,
     entry |-> NoEntry, reloc |-> NoReloc, overlap |-> FALSE]

\* A call is under way: it was started and has not returned.
Underway(p) == p \notin {"none", "idle", "done"}

\* The two calls sharing one validator.
own_context_Shared(mine, theirs) == theirs

\* `let mut validator = DefaultValidator::new(bytes)`: the validator is a
\* local of the call, so a call goes on with its own and never with the one
\* the other call is using.
own_context(mine, theirs) == mine

\* The call that is stepping, set aside. `overlap` records whether the two
\* calls were ever under way at the same time.
Suspended ==
    [rootTy |-> rootTy, pos |-> pos, mutable |-> mutable,
     validator |-> validator, frames |-> frames, pc |-> pc,
     result |-> result, ref |-> ref, accepted |-> accepted,
     checked |-> checked, reads |-> reads, last |-> last, counts |-> counts,
     completed |-> completed, entry |-> entry, reloc |-> reloc,
     overlap |-> other.overlap \/ (Underway(pc) /\ Underway(other.pc))]

\* The scheduler lets the other call step: at any point, with no lock.
Switch ==
    LET o == IF other.pc = "none" THEN IdlePass ELSE other
    IN  /\ other' = Suspended
        /\ rootTy' = o.rootTy
        /\ pos' = o.pos
        /\ mutable' = o.mutable
        /\ validator' = own_context(o.validator, validator)
        /\ frames' = o.frames
        /\ pc' = o.pc
        /\ result' = o.result
        /\ ref' = o.ref
        /\ accepted' = o.accepted
        /\ checked' = o.checked
        /\ reads' = o.reads
        /\ last' = o.last
        /\ counts' = o.counts
        /\ completed' = o.completed
        /\ entry' = o.entry
        /\ reloc' = o.reloc
        /\ UNCHANGED <<len, base, bytes, held, shared, ser, enc, rel, ext, args>>

\* The longest buffer two calls are interleaved on.
MaxShared == 3

InitPar ==
    /\ Init
    /\ base = 1
    /\ len <= MaxShared

NextPar ==
    \/ access
    \/ access_pos
    \/ CheckPos
    \/ BoundsCheck
    \/ PushPrefix
    \/ CheckBytesField
    \/ CheckBytesLeaf
    \/ CheckBytesDone
    \/ PopRange
    \/ Return
    \/ AccessReturn
    \/ Switch

SpecPar == InitPar /\ [][NextPar]_vars

\* The cell at address a, for a call that runs with nothing beside it.
cell(a) == IF InBuf(a) THEN bytes[a - base + 1] ELSE Unread

RECURSIVE verify_alone(_, _, _, _)
RECURSIVE check_bytes_alone(_, _, _, _)

\* T::check_bytes(ptr, context) from field i on, run in one piece.
check_bytes_alone(c, ty, ptr, i) ==
    IF ty = "Leaf"
    THEN IF cell(ptr) = Unread
         THEN [ok |-> FALSE, err |-> "Unread", ctx |-> c]
         ELSE IF leaf_valid(cell(ptr))
              THEN [ok |-> TRUE, err |-> "none", ctx |-> c]
              ELSE [ok |-> FALSE, err |-> "InvalidBytes", ctx |-> c]
    ELSE IF i = Len(fields(ty))
         THEN [ok |-> TRUE, err |-> "none", ctx |-> c]
         ELSE LET at == ptr + fields(ty)[i + 1][1]
              IN  IF cell(at) = Unread
                  THEN [ok |-> FALSE, err |-> "Unread", ctx |-> c]
                  ELSE LET r == verify_alone(c, fields(ty)[i + 1][2], at, cell(at))
                       IN  IF r.ok THEN check_bytes_alone(r.ctx, ty, ptr, i + 1)
                                   ELSE r

\* Verify::verify of a box (and the body of check_pos_with_context), run in
\* one piece: bounds check, push, check_bytes, pop, each under `?`.
verify_alone(c, ty, at, off) ==
    LET b == bounds_check_subtree_base_offset(c, ty, at, off, Unit)
    IN  IF ~b.ok
        THEN [ok |-> FALSE, err |-> b.err, ctx |-> c]
        ELSE LET p == push_prefix_subtree(c, ty, b.ptr, Unit)
             IN  IF ~p.ok
                 THEN [ok |-> FALSE, err |-> p.err, ctx |-> c]
                 ELSE LET k == check_bytes_alone(p.ctx, ty, b.ptr, 0)
                      IN  IF ~k.ok
                          THEN k
                          ELSE pop_subtree_range(k.ctx, p.range)

\* What access_pos::<T>(bytes, p) returns when it runs with nothing beside it.
check_pos_alone(T, p) ==
    IF p > ISIZE_MAX
    THEN Failed("PosOverflow")
    ELSE LET r == verify_alone(new_validator(base, base + len), T, base, p)
         IN  IF r.ok THEN [state |-> "Ok", err |-> "none"] ELSE Failed(r.err)

\* A call that has returned has the result, and the reference, of the call
\* run alone on the buffer.
SameAsAlone(p) ==
    p.pc = "done" =>
        /\ p.result = check_pos_alone(p.rootTy, p.pos)
        /\ p.ref = checked_access(check_pos_alone(p.rootTy, p.pos), p.pos, FALSE)

\* No step changes the buffer: a cell that was read keeps its value, and the
\* buffer stays where it is.
BufferKept ==
    /\ len' = len
    /\ base' = base
    /\ \A i \in 1 .. len : bytes[i] # Unread => bytes'[i] = bytes[i]

\* C25: two access passes over the same immutable buffer, each with its own
\* validator, interleaved step by step in any order: each pass returns what
\* it returns when run alone (Ok, or the same error), and no step of either
\* changes the buffer.
C25_Interleaved ==
    /\ [](SameAsAlone(Suspended) /\ (other.pc # "none" => SameAsAlone(other)))
    /\ [][BufferKept]_vars

C25_Witness ==
    /\ pc = "done"
    /\ other.pc = "done"
    /\ other.overlap
    /\ result.state = "Ok"
    /\ other.result.err = "PointerOutOfBounds"
    /\ other.reads \cap reads # {}


\* ------------------------------------------- a position that is no offset
\* One step of a call of an entry point that is under way.
PassStep ==
    \/ CheckPos
    \/ BoundsCheck
    \/ PushPrefix
    \/ CheckBytesField
    \/ CheckBytesLeaf
    \/ CheckBytesDone
    \/ PopRange
    \/ Return
    \/ AccessReturn

\* C26: when the position cannot be represented as a signed offset,
\* check_pos_with_context returns an error value before any method of the
\* context is called: the context is as the caller built it and nothing was
\* checked, pushed, popped or read. Whatever the position and the buffer, a
\* call under way always has a next step, and the call ends in Ok or in an
\* error value.
C26_PosOverflowIsAnError ==
    /\ (pos > ISIZE_MAX /\ pc \notin {"idle", "check_pos"}) =>
        /\ result = Failed("PosOverflow")
        /\ pc \in {"exit", "done"}
        /\ last = NoCall
        /\ counts = [push |-> 0, pop |-> 0, fail |-> 0]
        /\ validator \in Contexts
        /\ frames = << >>
        /\ accepted = {} /\ checked = {} /\ reads = {}
        /\ ~ref.some
    /\ result.err = "PosOverflow" => pos > ISIZE_MAX
    /\ Underway(pc) => ENABLED PassStep
    /\ pc \in {"exit", "done"} => result.state \in {"Ok", "Err"}
    /\ pc \notin {"exit", "done"} => result.state = "none"

C26_Witness ==
    /\ pos = ISIZE_MAX + 1
    /\ pc = "done"
    /\ result = Failed("PosOverflow")
    /\ last = NoCall
    /\ len > 0


\* ------------------------------------- ArchiveContextExt, called directly
\* A caller of the two provided methods of ArchiveContextExt on a validator
\* of the buffer, with pointees of sized types and of the slice type.
ExtTypes == {"Leaf", "Pair", "Slice"}

\* The lengths a slice pointer claims: the last one has no layout.
SliceLens == {0, 2, ISIZE_MAX + 1}

\* The metadata a pointer to a value of type ty can carry.
MetadataOf(ty) == IF ty = "Slice" THEN SliceLens ELSE {Unit}

\* The offsets from the start of the buffer that are tried.
ExtOffsets == (0 - 1) .. (MaxLen + 1)

\* The most ranges the caller holds at a time.
MaxHeld == 2

\* The buffers are the long ones, where ranges can be nested.
InitExt ==
    /\ Init
    /\ len >= MaxLen - 1

\* bounds_check_subtree_base_offset::<T>(bytes.as_ptr(), offset, metadata)
ExtBoundsCheck ==
    /\ \E ty \in ExtTypes, off \in ExtOffsets :
        \E m \in MetadataOf(ty) :
            ext' = [op |-> "bounds_check_subtree_base_offset", ty |-> ty,
                    b |-> base, offset |-> off, metadata |-> m,
                    pre |-> validator, held |-> held,
                    r |-> bounds_check_subtree_base_offset(validator, ty, base,
                                                           off, m)]
    /\ UNCHANGED <<len, base, bytes, rootTy, pos, mutable, validator, frames, pc,
                   result, ref, accepted, checked, reads, last, counts,
                   completed, held, reloc, entry, other, args>>
    /\ UNCHANGED <<shared, ser, enc, rel>>

\* push_prefix_subtree(root), for a root inside the subtree range whose
\* value, when it has a layout, lies inside the range as well.
ExtPushPrefix ==
    /\ Len(validator.stack) < MaxHeld
    /\ \E ty \in ExtTypes, root \in validator.start .. validator.end :
        \E m \in MetadataOf(ty) :
            LET layout == layout_raw(ty, m)
                r == push_prefix_subtree(validator, ty, root, m)
            IN  /\ layout.ok => root + layout.size <= validator.end
                /\ ext' = [op |-> "push_prefix_subtree", ty |-> ty, b |-> root,
                           offset |-> 0, metadata |-> m, pre |-> validator,
                           held |-> held, r |-> r]
                /\ validator' = r.ctx
                /\ held' = IF r.ok THEN Append(held, r.range) ELSE held
    /\ UNCHANGED <<len, base, bytes, rootTy, pos, mutable, frames, pc, result,
                   ref, accepted, checked, reads, last, counts, completed,
                   reloc, entry, other, args>>
    /\ UNCHANGED <<shared, ser, enc, rel>>

\* pop_subtree_range(range) of the range pushed last.
ExtPop ==
    /\ held # << >>
    /\ LET r == pop_subtree_range(validator, held[Len(held)])
       IN  /\ ext' = [op |-> "pop_subtree_range", ty |-> "Leaf",
                      b |-> held[Len(held)].start, offset |-> 0,
                      metadata |-> Unit, pre |-> validator, held |-> held,
                      r |-> r]
           /\ validator' = r.ctx
           /\ held' = SubSeq(held, 1, Len(held) - 1)
    /\ UNCHANGED <<len, base, bytes, rootTy, pos, mutable, frames, pc, result,
                   ref, accepted, checked, reads, last, counts, completed,
                   reloc, entry, other, args>>
    /\ UNCHANGED <<shared, ser, enc, rel>>

NextExt ==
    \/ ExtBoundsCheck
    \/ ExtPushPrefix
    \/ ExtPop

SpecExt == InitExt /\ [][NextExt]_vars

\* C27: bounds_check_subtree_base_offset takes base + offset for the pointer
\* and the layout from the metadata. When the layout overflows it returns
\* LayoutOverflow and check_subtree_ptr is not called; otherwise it returns
\* what check_subtree_ptr answers for [ptr, ptr + size), and the pointer only
\* when that is Ok. Whether it fails or not, the context and its range stack
\* are as before the call.
C27_BoundsCheckFailures ==
    ext.op = "bounds_check_subtree_base_offset" =>
        LET ptr == wrapping_offset(ext.b, ext.offset)
            layout == layout_raw(ext.ty, ext.metadata)
        IN  /\ ~layout.ok =>
                /\ ~ext.r.ok
                /\ ext.r.err = "LayoutOverflow"
                /\ ~ext.r.called
            /\ layout.ok =>
                /\ ext.r.called
                /\ ext.r.inner = check_subtree_ptr(ext.pre, ptr, layout.size)
                /\ ext.r.ok = ext.r.inner.ok
                /\ ext.r.err = ext.r.inner.err
            /\ ext.r.ok <=>
                /\ layout.ok
                /\ ext.pre.start <= ptr
                /\ ptr + layout.size <= ext.pre.end
            /\ ext.r.ptr = IF ext.r.ok THEN ptr ELSE NoAddr
            /\ ~ext.r.ok => ext.r.err \in {"LayoutOverflow", "PointerOutOfBounds"}
            /\ validator = ext.pre
            /\ held = ext.held

C27_Witness ==
    /\ ext.op = "bounds_check_subtree_base_offset"
    /\ ext.ty = "Slice"
    /\ ext.metadata = ISIZE_MAX + 1
    /\ ext.r.err = "LayoutOverflow"
    /\ ~ext.r.called
    /\ ext.offset = 0
    /\ validator.stack # << >>
    /\ validator = ext.pre


\* C28: push_prefix_subtree(root), for a pointee whose layout has size s,
\* returns what push_subtree_range(root, root + s) returns and leaves the
\* context that call leaves; when the layout cannot be computed it returns
\* the error and the context, with its range stack, is as before.
C28_PushPrefixIsPushRange ==
    ext.op = "push_prefix_subtree" =>
        LET layout == layout_raw(ext.ty, ext.metadata)
            raw == push_subtree_range(ext.pre, ext.b, ext.b + layout.size)
        IN  /\ layout.ok =>
                /\ ext.r.ok
                /\ ext.r.range = raw.range
                /\ ext.r.ctx = raw.ctx
                /\ validator = raw.ctx
                /\ held = Append(ext.held, raw.range)
                /\ validator.end = ext.b
                /\ ext.r.range = [start |-> ext.b + layout.size, end |-> ext.pre.end]
            /\ ~layout.ok =>
                /\ ~ext.r.ok
                /\ ext.r.err = "LayoutOverflow"
                /\ validator = ext.pre
                /\ held = ext.held

C28_Witness ==
    /\ ext.op = "push_prefix_subtree"
    /\ ext.ty = "Slice"
    /\ ext.metadata = 2
    /\ ext.r.ok
    /\ ext.pre.stack # << >>
    /\ ext.r.range.start = ext.b + 2
    /\ ext.r.range.start < ext.r.range.end
    /\ validator.end = ext.b


\* ------------------------------------------------ siblings do not overlap
\* Two ranges <<ptr, size>> share a cell.
Overlap(r, s) == r[1] < s[1] + s[2] /\ s[1] < r[1] + r[2]

\* The pointee the box being verified points at, if its RelPtr reads off.
Pointee(f, off) == <<wrapping_offset(f.at, off), size_of(f.ty)>>

\* C29: the ranges of pointees never overlap. A box whose target shares a
\* cell with a pointee that was accepted before it (a sibling that was
\* validated and popped, or an enclosing value) fails the bounds check,
\* whatever offset its RelPtr holds; so the pointees accepted in a pass are
\* pairwise disjoint, and a pass that met such a box has failed with the
\* bounds error.
C29_SiblingsDisjoint ==
    /\ (pc = "bounds" /\ frames # << >> /\ Top.kind = "box") =>
        \A off \in ReadVals(Top.at) : \A a \in accepted :
            Overlap(Pointee(Top, off), a) =>
                ~bounds_check_subtree_base_offset(validator, Top.ty, Top.at,
                                                  off, Unit).ok
    /\ \A a \in accepted : \A b \in accepted : a # b => ~Overlap(a, b)
    /\ (/\ pc \in {"exit", "done"}
        /\ frames # << >>
        /\ Top.kind = "box"
        /\ Top.steps = << "bounds" >>
        /\ InBuf(Top.at)
        /\ bytes[Top.at - base + 1] # Unread
        /\ \E a \in accepted :
              Overlap(Pointee(Top, bytes[Top.at - base + 1]), a)) =>
        result = Failed("PointerOutOfBounds")

\* The second box of a Pair points at the leaf of the first, which was
\* validated and popped.
C29_Witness ==
    /\ pc = "done"
    /\ result = Failed("PointerOutOfBounds")
    /\ Len(frames) = 2
    /\ frames[1].ty = "Pair"
    /\ frames[1].field = 1
    /\ counts.pop = 1
    /\ Top.kind = "box"
    /\ Pointee(Top, bytes[Top.at - base + 1]) \in accepted
    /\ <<Pointee(Top, bytes[Top.at - base + 1])[1], "Leaf">> \in checked


\* ------------------------------------------------------- a failed pass
\* Nothing is done on the context, and nothing is checked or read.
ContextUntouched ==
    /\ validator' = validator
    /\ last' = last
    /\ counts' = counts
    /\ accepted' = accepted
    /\ checked' = checked
    /\ reads' = reads
    /\ frames' = frames
    /\ bytes' = bytes
    /\ result' = result

\* C30: a failed pass stays failed. From the step at which a bounds check, a
\* check_bytes or a pop returned an error, the pass only returns: the error
\* is kept and handed back, and no check, push, pop or read follows. When
\* check_bytes fails after the pointee's range was pushed, the pass ends
\* with that range not popped: the context still holds it and still has the
\* range the push left.
C30_FailedIsAbsorbing ==
    /\ [](result.state = "Err" =>
            /\ pc \in {"exit", "done"}
            /\ counts.fail = IF result.err = "PosOverflow" THEN 0 ELSE 1
            /\ pc = "done" => ~ref.some
            /\ result.err = "InvalidBytes" =>
                /\ frames # << >>
                /\ Top.steps = << "bounds", "push", "check_bytes" >>
                /\ validator.stack # << >>
                /\ validator.stack[Len(validator.stack)] = Top.range
                /\ validator.end = Top.ptr
                /\ Len(validator.stack) = Len(frames)
                /\ counts.pop < counts.push)
    /\ [][result.state = "Err" => ContextUntouched]_vars

C30_Witness ==
    /\ pc = "done"
    /\ result = Failed("InvalidBytes")
    /\ Len(frames) = 2
    /\ frames[1].field = 1
    /\ Len(validator.stack) = 2
    /\ counts.push = 3
    /\ counts.pop = 1
    /\ validator.end = Top.ptr


\* ------------------------------------------ a buffer shorter than the root
\* C31: on a buffer shorter than the root type the entry points that compute
\* the root position take position 0 (the subtraction saturates, it does not
\* wrap), and the pass then fails with the bounds error of the root: no
\* reference is returned, so none reaches past the end of the buffer.
C31_ShortBuffer ==
    /\ (entry.name \in RootEntries /\ len < size_of(rootTy)) =>
        /\ pos = 0
        /\ pos <= ISIZE_MAX
        /\ pc \in {"exit", "done"} =>
            /\ result = Failed("PointerOutOfBounds")
            /\ last.op = "check_subtree_ptr"
            /\ last.a = base
            /\ ~last.ok
            /\ counts.push = 0
            /\ accepted = {} /\ checked = {} /\ reads = {}
        /\ ~ref.some
    /\ (entry.name \in RootEntries /\ ref.some) =>
        ref.pos + size_of(rootTy) <= len

C31_Witness ==
    /\ entry.name = "access"
    /\ len = 1
    /\ rootTy = "Pair"
    /\ pos = 0
    /\ pc = "done"
    /\ result = Failed("PointerOutOfBounds")
    /\ ~ref.some


\* ------------------------------------------- one component for each call
\* C32: a call on the Composite touches only the component it is forwarded
\* to: write leaves the allocator and the sharing registry as they were,
\* push_alloc and pop_alloc leave the writer (and so pos()) and the registry,
\* add_shared_ptr leaves the writer and the allocator, and pos() and
\* get_shared_ptr leave all three.
C32_OwnComponentOnly ==
    ser.kind # "none" =>
        /\ ser.lastc.op = "write" =>
            /\ ser.comp.allocator = ser.pre.allocator
            /\ ser.comp.share = ser.pre.share
        /\ ser.lastc.op \in {"push_alloc", "pop_alloc"} =>
            /\ ser.comp.writer = ser.pre.writer
            /\ Composite_pos(ser.comp) = Composite_pos(ser.pre)
            /\ ser.comp.share = ser.pre.share
        /\ ser.lastc.op = "add_shared_ptr" =>
            /\ ser.comp.writer = ser.pre.writer
            /\ ser.comp.allocator = ser.pre.allocator
        /\ ser.lastc.op \in {"pos", "get_shared_ptr"} => ser.comp = ser.pre
        /\ ser.lastc.op = "none" => ser.comp = ser.pre

\* An allocation was pushed on a serializer that holds written bytes and a
\* recorded shared pointer: only the allocator differs.
C32_Witness ==
    /\ ser.lastc.op = "push_alloc"
    /\ ser.lastc.ok
    /\ ser.pre.writer.buf # << >>
    /\ ser.pre.share.map # {}
    /\ ser.pre.allocator.stack # << >>
    /\ ser.comp.allocator # ser.pre.allocator
    /\ ser.comp.writer = ser.pre.writer
    /\ ser.comp.share = ser.pre.share


\* --------------------------------------------------- always duplicate
\* C33: the fixed-capacity CoreSerializer is configured with the strategy
\* that always duplicates: whatever add_shared_ptr calls were made, its
\* registry holds nothing and get_shared_ptr answers None for every
\* address; so every pointer field, shared or not, writes its own copy of
\* its pointee, and a pointee referenced by two fields is written twice, at
\* two positions.
C33_AlwaysDuplicate ==
    ser.kind = "CoreSerializer" =>
        /\ ser.comp.share = Duplicate
        /\ \A address \in SerAddrs :
             Composite_get_shared_ptr(ser.comp, address) = None
        /\ enc.pc # "none" =>
            /\ \A i \in 1 .. Len(enc.adv) :
                 enc.adv[i] = Len(pointee(enc.value[i].address))
            /\ \A i, j \in 1 .. Len(enc.resolvers) :
                 i < j => enc.resolvers[i].pos < enc.resolvers[j].pos
            /\ (enc.lastf.kind = "Rc") =>
                /\ enc.lastf.ok = enc.lastf.unsized.ok
                /\ enc.lastf.err = enc.lastf.unsized.err
                /\ enc.lastf.ok =>
                    /\ enc.lastf.ret = from_pos(enc.lastf.unsized.ret)
                    /\ enc.lastf.after > enc.lastf.before

\* Two shared pointers to one address were serialized: two copies.
C33_Witness ==
    /\ ser.kind = "CoreSerializer"
    /\ enc.pc = "root"
    /\ Len(enc.value) = 2
    /\ enc.value[1] = [address |-> 0, kind |-> "Rc"]
    /\ enc.value[2] = enc.value[1]
    /\ enc.adv = <<1, 1>>
    /\ enc.resolvers[1].pos # enc.resolvers[2].pos
    /\ ser.comp.writer.buf = <<0, 0>>
    /\ Composite_get_shared_ptr(ser.comp, 0) = None


\* ================================================ archive_dyn arguments
\* Bound: the most tokens in the attribute's argument list.
MaxTokens == 5

\* The tokens of an argument list: the two keywords, `=`, `,`, two string
\* literals, and any other token.
LitStrs == {"A", "B"}
Tokens == {"serialize", "deserialize", "=", ",", "other"} \cup LitStrs

\* What a peek or a parse sees at the end of the input.
Eof == "end of input"

\* The token streams the attribute is written with.
Inputs == UNION {[1 .. n -> Tokens] : n \in 0 .. MaxTokens}

\* Option<LitStr>: None and Some(lit).
Absent == [some |-> FALSE, lit |-> "", named |-> FALSE]
Given(lit) == [some |-> TRUE, lit |-> lit, named |-> TRUE]
\* Option<Option<LitStr>>: Some(None), the keyword without a name.
Unnamed == [some |-> TRUE, lit |-> "", named |-> FALSE]

\* The parser before its loop: `serialize = None`, `deserialize = None`,
\* `needs_punct = false`, and nothing consumed.
NewArgs(input) ==
    [pc |-> "parse", input |-> input, at |-> 0, serialize |-> Absent,
     deserialize |-> Absent, needs_punct |-> FALSE, err |-> "none"]

\* The token i places into the input.
tok(a, i) == IF i <= Len(a.input) THEN a.input[i] ELSE Eof

\* return Err(..), also through `?`
Reject(a, msg) == [a EXCEPT !.pc = "Err", !.err = msg]

\* The check for an argument given before, left out.
is_some_Never(opt) == FALSE

\* Option::is_some
is_some(opt) == opt.some

\* if needs_punct { input.parse::<Token![,]>()?; }
parse_punct(a) ==
    IF ~a.needs_punct THEN a
    ELSE IF tok(a, a.at + 1) = "," THEN [a EXCEPT !.at = @ + 1]
    ELSE Reject(a, "expected comma")

\* The branch of `input.peek(kw::serialize)`.
parse_serialize(a) ==
    IF is_some(a.serialize) THEN Reject(a, "duplicate serialize argument")
    ELSE IF tok(a, a.at + 2) # "=" THEN Reject(a, "expected equals")
    ELSE IF tok(a, a.at + 3) \notin LitStrs
    THEN Reject(a, "expected string literal")
    ELSE [a EXCEPT !.serialize = Given(tok(a, a.at + 3)), !.at = @ + 3,
                   !.needs_punct = TRUE]

\* The branch of `input.peek(kw::deserialize)`.
parse_deserialize(a) ==
    IF is_some(a.deserialize) THEN Reject(a, "duplicate deserialize argument")
    ELSE IF tok(a, a.at + 2) = "="
    THEN IF tok(a, a.at + 3) \notin LitStrs
         THEN Reject(a, "expected string literal")
         ELSE [a EXCEPT !.deserialize = Given(tok(a, a.at + 3)), !.at = @ + 3,
                        !.needs_punct = TRUE]
    ELSE [a EXCEPT !.deserialize = Unnamed, !.at = @ + 1, !.needs_punct = TRUE]

\* One turn of `while !input.is_empty() { .. }`.
parse_loop(a) ==
    LET b == parse_punct(a)
    IN  IF b.pc = "Err" THEN b
        ELSE IF tok(b, b.at + 1) = "serialize" THEN parse_serialize(b)
        ELSE IF tok(b, b.at + 1) = "deserialize" THEN parse_deserialize(b)
        ELSE Reject(b, "expected serialize or deserialize parameters")

\* The state of the runtime crates, which the macro crate leaves alone.
runtimeVars == <<len, base, bytes, rootTy, pos, mutable, validator, frames, pc,
                 result, ref, accepted, checked, reads, last, counts,
                 completed, held, reloc, entry, other, ext, shared, ser, enc,
                 rel>>

\* archive_dyn is written with an argument list, which is parsed as Args.
ArgsStart ==
    /\ args.pc = "none"
    /\ \E input \in Inputs : args' = NewArgs(input)
    /\ UNCHANGED runtimeVars

ArgsLoop ==
    /\ args.pc = "parse"
    /\ args.at < Len(args.input)
    /\ args' = parse_loop(args)
    /\ UNCHANGED runtimeVars

\* The input is empty: Ok(Args { serialize, deserialize }).
ArgsReturn ==
    /\ args.pc = "parse"
    /\ args.at = Len(args.input)
    /\ args' = [args EXCEPT !.pc = "Ok"]
    /\ UNCHANGED runtimeVars

\* Nothing was parsed yet, and nothing runs beside the macro.
InitArgs ==
    /\ PassIdle
    /\ shared = new_shared
    /\ ser = NoSer
    /\ enc = NoEnc
    /\ rel = NoRel

NextArgs == ArgsStart \/ ArgsLoop \/ ArgsReturn

SpecArgs == InitArgs /\ [][NextArgs]_vars

\* The argument lists of the documentation: the items `serialize = "..."`,
\* `deserialize` and `deserialize = "..."`, separated by commas, each keyword
\* at most once.
SerializeItems == {<<"serialize", "=", l>> : l \in LitStrs}
DeserializeItems == {<<"deserialize">>} \cup {<<"deserialize", "=", l>> : l \in LitStrs}
ArgLists ==
    {<< >>} \cup SerializeItems \cup DeserializeItems
        \cup {s \o <<",">> \o d : s \in SerializeItems, d \in DeserializeItems}
        \cup {d \o <<",">> \o s : s \in SerializeItems, d \in DeserializeItems}

\* How often a token occurs in a token stream.
Occurrences(input, t) == Cardinality({i \in 1 .. Len(input) : input[i] = t})

\* The name an argument list gives after a keyword, if it gives the keyword.
NameAfter(input, kw) ==
    IF Occurrences(input, kw) = 0 THEN Absent
    ELSE LET i == CHOOSE i \in 1 .. Len(input) : input[i] = kw
         IN  IF i + 2 <= Len(input) /\ input[i + 1] = "="
             THEN Given(input[i + 2])
             ELSE Unnamed

\* C34: the parser of the archive_dyn arguments accepts exactly the
\* comma-separated lists of `serialize = "..."`, `deserialize` and
\* `deserialize = "..."` items with each keyword at most once, and returns the
\* names they give; every other token stream ends in a parse error: a second
\* serialize or deserialize item, an unknown item, two items with no comma
\* between them. The empty list gives no serialize and no deserialize
\* argument.
C34_ArgsParser ==
    args.pc # "none" =>
        /\ args.pc = "Ok" =>
            /\ args.input \in ArgLists
            /\ args.at = Len(args.input)
            /\ args.serialize = NameAfter(args.input, "serialize")
            /\ args.deserialize = NameAfter(args.input, "deserialize")
            /\ args.err = "none"
        /\ args.pc = "Err" =>
            /\ args.input \notin ArgLists
            /\ args.err # "none"
        /\ args.pc = "parse" =>
            /\ SubSeq(args.input, 1, args.at) \in ArgLists
            /\ args.needs_punct <=> args.at > 0
        /\ (args.pc \in {"Ok", "Err"} /\ Occurrences(args.input, "serialize") > 1) =>
            args.pc = "Err"
        /\ (args.pc \in {"Ok", "Err"} /\ Occurrences(args.input, "deserialize") > 1) =>
            args.pc = "Err"
        /\ (args.pc \in {"Ok", "Err"} /\ Occurrences(args.input, "other") > 0) =>
            args.pc = "Err"
        /\ args.err = "duplicate serialize argument" =>
            /\ Occurrences(args.input, "serialize") > 1
            /\ args.serialize.some
        /\ args.err = "duplicate deserialize argument" =>
            /\ Occurrences(args.input, "deserialize") > 1
            /\ args.deserialize.some
        /\ args.err = "expected comma" =>
            /\ args.at > 0
            /\ args.input[args.at + 1] # ","
        /\ (args.pc \in {"Ok", "Err"} /\ args.input = << >>) =>
            /\ args.pc = "Ok"
            /\ args.serialize = Absent
            /\ args.deserialize = Absent

\* `serialize = "A", serialize`: the second serialize item is refused.
C34_Witness ==
    /\ args.pc = "Err"
    /\ args.err = "duplicate serialize argument"
    /\ args.input = <<"serialize", "=", "A", ",", "serialize">>
    /\ args.serialize = Given("A")
    /\ args.deserialize = Absent

====
